---- MODULE Spec2Model ----
(***************************************************************************)
(* A state-machine model of DjangoVerseHub: the Article publication        *)
(* workflow and slug assignment, comment threading and the like toggle,    *)
(* notification persistence and real-time push, and the two cache-backed   *)
(* rate limiters.  Each subsystem has its own specification over the       *)
(* shared variables; a subsystem's actions leave the others' variables     *)
(* unchanged.                                                              *)
(***************************************************************************)
EXTENDS Integers, Sequences, FiniteSets, TLC

VARIABLES
    articles,       \* articles_article table: ArticleIds -> row or NoRow
    now,            \* the value the next timezone.now() call returns
    creq,           \* in-flight Article creations (position inside Article.save)
    comments,       \* comments_comment table: CommentIds -> row or NoRow
    lastComment,    \* outcome of the last comment-creation request
    likes,          \* comments_commentlike table: set of <<comment, user>>
    lreq,           \* in-flight like-toggle requests
    notifications,  \* notifications_notification table: NotificationIds -> row or NoRow
    nreq,           \* per notification: the event handler run that creates and pushes it
    conns,          \* NotificationConsumer instances (WebSocket connections)
    lastMark,       \* the last Notification.mark_as_read call and its outcome
    cache,          \* the rate-limit keys of the Django cache
    rreq,           \* in-flight rate-limited requests
    admitted,       \* per key: requests admitted since the key last expired
    layer,          \* the channel layer get_channel_layer() finds, and its broker's health
    lastFrame,      \* the last inbound WebSocket frame and what the consumer did with it
    lastDelete,     \* the last delete_notification request and its response
    pcache,         \* the popular_articles:<days>:<limit> keys of the Django cache
    customusers,    \* users_customuser table: Users -> row or NoRow
    profiles,       \* users_profile table: ProfileIds -> row or NoRow
    pubcache,       \* the public_profile:<user id> keys of the Django cache
    preq,           \* in-flight UserCache.get_public_profile calls
    lgreq,          \* in-flight login requests (the authenticated user instance)
    jobs,           \* the Celery jobs enqueued so far, each with its execution state
    wclock,         \* the clock of the workers and of the cache timeouts, in seconds
    vreq,           \* in-flight article requests (detail view, edit, popular list) and what each has read
    window          \* per client IP key: when its cache entry lapses, its recent request times, the last response

vars_article == <<articles, now, creq>>
vars_comment == <<comments, lastComment>>
vars_like == <<likes, lreq>>
vars_push == <<nreq, conns, lastMark>>
vars_notif == <<notifications, nreq, conns, lastMark>>
vars_rate == <<cache, rreq, admitted>>
vars_channel == <<layer, lastFrame, lastDelete>>
vars_acache == <<pcache>>
vars_users == <<customusers, profiles, pubcache, preq>>
vars_account == <<lgreq>>
vars_worker == <<jobs, wclock>>
vars_views == <<vreq>>
vars_window == <<window>>
ext_not_acache == <<vars_channel, vars_users, vars_account, vars_worker, vars_views, vars_window>>
vars_ext == <<ext_not_acache, vars_acache>>

\* what the actions of one subsystem leave alone
not_article == <<vars_comment, vars_like, vars_notif, vars_rate, vars_ext>>
\* ... and what an Article.save, whose post_save receiver clears cache keys
not_article_save == <<vars_comment, vars_like, vars_notif, vars_rate, ext_not_acache>>

vars == <<articles, now, creq, comments, lastComment, likes, lreq, notifications,
          nreq, conns, lastMark, cache, rreq, admitted, vars_ext>>

----------------------------------------------------------------------------
(* Bounds *)

MaxArticles == 3
MaxCreateReqs == 2
MaxTime == 4
MaxViews == 1
MaxComments == 5
MaxLikeReqs == 3
MaxNotifications == 2
MaxConns == 1
MaxRateReqs == 3
MaxProfiles == 3
MaxLookups == 2
MaxLoginReqs == 2
MaxLogins == 3
MaxClock == 240
TickSeconds == 30
MaxEditMinutes == 20
TickMinutes == 5
MaxSubmissions == 3
MaxViewReqs == 3
MaxWindowClock == 3060
MaxNotifiedComments == 2

----------------------------------------------------------------------------
(* Shared values *)

Users == {"A", "B"}
NoRow == [exists |-> FALSE]
None == 0                       \* SQL NULL / Python None for timestamps

ArticleIds == 1..MaxArticles
CreateReqs == 1..MaxCreateReqs
CommentIds == 1..MaxComments
LikeReqs == 1..MaxLikeReqs
NotificationIds == 1..MaxNotifications
Conns == 1..MaxConns
RateReqs == 1..MaxRateReqs
ProfileIds == 1..MaxProfiles
Lookups == 1..MaxLookups
LoginReqs == 1..MaxLoginReqs
ViewReqs == 1..MaxViewReqs
IdleLike == [pc |-> "idle"]

\* Article.STATUS_CHOICES
STATUS_CHOICES == {"draft", "published", "archived"}

----------------------------------------------------------------------------
(* django.utils.text.slugify and generate_unique_slug, on character        *)
(* sequences                                                               *)

Titles == { <<"F", "o", "o">>, <<"F", "o", "o", " ", "1">> }

\* str.lower() on the characters that occur in Titles
Lower(ch) == IF ch = "F" THEN "f" ELSE ch

IsWordChar(ch) == ch \in {"f", "o", "1", "2", "3", "4", "5", "6", "7", "8", "9", "0", "_"}
IsSepChar(ch) == ch \in {" ", "-"}

\* re.sub(r'[^\w\s-]', '', value.lower())
RECURSIVE StripSpecials(_)
StripSpecials(s) ==
    IF s = <<>> THEN <<>>
    ELSE LET ch == Lower(Head(s))
         IN  IF IsWordChar(ch) \/ IsSepChar(ch)
             THEN <<ch>> \o StripSpecials(Tail(s))
             ELSE StripSpecials(Tail(s))

\* re.sub(r'[-\s]+', '-', value)
RECURSIVE CollapseSeparators(_)
CollapseSeparators(s) ==
    IF s = <<>> THEN <<>>
    ELSE IF IsSepChar(Head(s))
         THEN IF Len(s) > 1 /\ IsSepChar(s[2])
              THEN CollapseSeparators(Tail(s))
              ELSE <<"-">> \o CollapseSeparators(Tail(s))
         ELSE <<Head(s)>> \o CollapseSeparators(Tail(s))

\* .strip('-_')
RECURSIVE StripEdges(_)
StripEdges(s) ==
    IF s = <<>> THEN <<>>
    ELSE IF Head(s) \in {"-", "_"} THEN StripEdges(Tail(s))
    ELSE IF s[Len(s)] \in {"-", "_"} THEN StripEdges(SubSeq(s, 1, Len(s) - 1))
    ELSE s

slugify(title) == StripEdges(CollapseSeparators(StripSpecials(title)))

\* str(num) for the suffixes the model reaches
DigitChar(n) == <<"0", "1", "2", "3", "4", "5", "6", "7", "8", "9">>[n + 1]
RECURSIVE NumStr(_)
NumStr(n) == IF n < 10 THEN <<DigitChar(n)>>
             ELSE NumStr(n \div 10) \o <<DigitChar(n % 10)>>

\* f'{slug}-{num}'
SuffixedSlug(slug, num) == slug \o <<"-">> \o NumStr(num)

\* instance.__class__.objects.filter(slug=unique_slug).exists()
SlugExists(s) == \E a \in ArticleIds : articles[a].exists /\ articles[a].slug = s

----------------------------------------------------------------------------
(* Article.save: the publication stamp                                     *)

\* models.py 184-187: the published_at the row is written with
PublishedAtOnSave(status, published_at, t) ==
    IF status = "published" /\ published_at = None THEN t
    ELSE IF status # "published" THEN None
    ELSE published_at

StoredArticles == {a \in ArticleIds : articles[a].exists}
FreeArticleIds == {a \in ArticleIds : ~articles[a].exists}

IdleCreate == [pc |-> "idle"]

\* request.user of the session a request slot belongs to
SessionUser(r) == IF r % 2 = 1 THEN "A" ELSE "B"

\* The empty database and idle workers
EmptyArticles ==
    /\ articles = [a \in ArticleIds |-> NoRow]
    /\ now = 1
    /\ creq = [r \in CreateReqs |-> IdleCreate]

EmptyComments ==
    /\ comments = [c \in CommentIds |-> NoRow]
    /\ lastComment = [result |-> "none", depth |-> 0]

EmptyLikes ==
    /\ likes = {}
    /\ lreq = [r \in LikeReqs |-> IdleLike]

EmptyNotifications ==
    /\ notifications = [n \in NotificationIds |-> NoRow]
    /\ nreq = [n \in NotificationIds |-> [pc |-> "idle"]]
    /\ conns = [k \in Conns |-> [state |-> "new"]]
    /\ lastMark = [tick |-> 0, id |-> None, outcome |-> "none"]

\* the two limiters' identities and their cache keys
RateKeys == {"rate_limit:10.0.0.1", "rate_limit:user:A", "rate_limit:ip:10.0.0.1"}
MiddlewareKeys == {"rate_limit:10.0.0.1"}
\* no request of a client IP has been seen yet
NoTraffic == [expires |-> 0, sent |-> {}, response |-> "none"]
Absent == -1                    \* cache.get finds no entry for the key

EmptyRate ==
    /\ cache = [k \in RateKeys |-> Absent]
    /\ rreq = [r \in RateReqs |-> [pc |-> "idle"]]
    /\ admitted = [k \in RateKeys |-> 0]

\* a configured channel layer with a reachable broker, no frame received yet
EmptyChannel ==
    /\ layer = "available"
    /\ lastFrame = [tick |-> 0, conn |-> None, text |-> <<>>, outcome |-> "none"]
    /\ lastDelete = [tick |-> 0, user |-> "none", id |-> None, outcome |-> "none"]

\* ArticleCacheManager.get_popular_articles_cache_key(days, limit):
\* f'popular_articles:{days}:{limit}'
DefaultDays == 7
DefaultLimit == 10
get_popular_articles_cache_key(days, limit) == <<"popular_articles", days, limit>>

\* the (days, limit) pairs callers ask for
PopularRequests == {<<DefaultDays, DefaultLimit>>, <<DefaultDays, 2>>}
PopularKeys == {get_popular_articles_cache_key(q[1], q[2]) : q \in PopularRequests}

Miss == [hit |-> FALSE]         \* cache.get returns None

EmptyArticleCache ==
    /\ pcache = [key \in PopularKeys |-> Miss]

\* cache.delete_many(keys)
delete_many(keys) == [key \in PopularKeys |-> IF key \in keys THEN Miss ELSE pcache[key]]

\* article_post_save: invalidate_article_cache(instance.id) and
\* invalidate_article_list_cache(); of the keys they delete, the popular
\* list's is get_popular_articles_cache_key() with its default arguments
article_post_save ==
    pcache' = delete_many({get_popular_articles_cache_key(DefaultDays, DefaultLimit)})

\* the row Profile.objects.get_or_create(user=u) inserts: the field defaults
NewProfile(u) == [exists |-> TRUE, user |-> u, is_public |-> TRUE, bio |-> ""]

\* the row of a user who has just been created
NewUser == [exists |-> TRUE, login_count |-> 0, is_staff |-> FALSE, is_superuser |-> FALSE]

\* the authors of the other subsystems are registered and have their profile
RegisteredUsers ==
    /\ customusers = [u \in Users |-> NewUser]
    /\ profiles = [i \in ProfileIds |->
                     IF i = 1 THEN NewProfile("A")
                     ELSE IF i = 2 THEN NewProfile("B")
                     ELSE NoRow]
    /\ pubcache = [u \in Users |-> Miss]
    /\ preq = [r \in Lookups |-> [pc |-> "idle"]]

\* a job as apply_async publishes it: first execution due at once
Job(task, arg) == [task |-> task, arg |-> arg, state |-> "queued", retries |-> 0, eta |-> 0]

\* nobody is logging in; the welcome emails of the registered users were
\* enqueued at their registration
IdleAccounts ==
    /\ lgreq = [r \in LoginReqs |-> [pc |-> "idle"]]
    /\ jobs = <<Job("send_welcome_email", "A"), Job("send_welcome_email", "B")>>
    /\ wclock = 0
    /\ vreq = [r \in ViewReqs |-> [pc |-> "idle"]]
    /\ window = [k \in MiddlewareKeys |-> NoTraffic]

EmptyExt ==
    /\ EmptyChannel
    /\ EmptyArticleCache
    /\ RegisteredUsers
    /\ IdleAccounts

InitArticle ==
    /\ EmptyArticles
    /\ EmptyComments
    /\ EmptyLikes
    /\ EmptyNotifications
    /\ EmptyRate
    /\ EmptyExt

\* ArticleCreateView / ArticleViewSet.create: a new instance enters
\* Article.save with an empty slug; generate_unique_slug starts probing.
StartCreate(r, title, status) ==
    /\ creq[r].pc = "idle"
    /\ creq' = [creq EXCEPT ![r] =
                  [pc |-> "probe", author |-> SessionUser(r), title |-> title,
                   status |-> status, slug |-> slugify(title),
                   unique_slug |-> slugify(title), num |-> 1]]
    /\ UNCHANGED <<articles, now, not_article>>

\* One iteration of the while loop of generate_unique_slug (one EXISTS query)
ProbeSlug(r) ==
    /\ creq[r].pc = "probe"
    /\ IF SlugExists(creq[r].unique_slug)
       THEN creq' = [creq EXCEPT ![r].unique_slug = SuffixedSlug(creq[r].slug, creq[r].num),
                                 ![r].num = creq[r].num + 1]
       ELSE creq' = [creq EXCEPT ![r].pc = "insert"]
    /\ UNCHANGED <<articles, now, not_article>>

\* The rest of Article.save: stamp published_at and INSERT.  The unique
\* index on slug rejects the row (IntegrityError) when another creation
\* stored the same slug after this one's probe.
InsertArticle(r) ==
    /\ creq[r].pc = "insert"
    /\ now < MaxTime
    /\ FreeArticleIds # {}
    /\ LET a == CHOOSE x \in FreeArticleIds : \A y \in FreeArticleIds : x <= y
           row == [exists |-> TRUE, author |-> creq[r].author,
                   title |-> creq[r].title,
                   slug |-> creq[r].unique_slug, status |-> creq[r].status,
                   published_at |-> PublishedAtOnSave(creq[r].status, None, now),
                   views_count |-> 0]
       IN  IF SlugExists(creq[r].unique_slug)
           THEN /\ creq' = [creq EXCEPT ![r].pc = "failed"]
                /\ UNCHANGED articles
                /\ UNCHANGED pcache
           ELSE /\ articles' = [articles EXCEPT ![a] = row]
                /\ creq' = [creq EXCEPT ![r].pc = "done"]
                /\ article_post_save
    /\ now' = now + 1
    /\ UNCHANGED not_article_save

\* ArticleUpdateView / ArticleViewSet.update: load the row, set the form's
\* status, Article.save writes every column.
SaveArticle(a, status) ==
    /\ articles[a].exists
    /\ now < MaxTime
    /\ articles' = [articles EXCEPT
                      ![a].status = status,
                      ![a].published_at =
                          PublishedAtOnSave(status, articles[a].published_at, now)]
    /\ now' = now + 1
    /\ article_post_save
    /\ UNCHANGED <<creq, not_article_save>>

\* ArticleAdmin.make_published: queryset.update(status='published')
make_published(queryset) ==
    /\ queryset # {}
    /\ articles' = [a \in ArticleIds |->
                      IF a \in queryset THEN [articles[a] EXCEPT !.status = "published"]
                      ELSE articles[a]]
    /\ UNCHANGED <<now, creq, not_article>>

\* ArticleAdmin.make_draft: queryset.update(status='draft')
make_draft(queryset) ==
    /\ queryset # {}
    /\ articles' = [a \in ArticleIds |->
                      IF a \in queryset THEN [articles[a] EXCEPT !.status = "draft"]
                      ELSE articles[a]]
    /\ UNCHANGED <<now, creq, not_article>>

\* Article.increment_views: save(update_fields=['views_count']) runs the
\* body of Article.save on the instance but writes only views_count.
increment_views(a) ==
    /\ articles[a].exists
    /\ articles[a].views_count < MaxViews
    /\ now < MaxTime
    /\ articles' = [articles EXCEPT ![a].views_count = articles[a].views_count + 1]
    /\ now' = now + 1
    /\ article_post_save
    /\ UNCHANGED <<creq, not_article_save>>

NextArticle ==
    \/ \E r \in CreateReqs, t \in Titles, s \in STATUS_CHOICES :
          StartCreate(r, t, s)
    \/ \E r \in CreateReqs : ProbeSlug(r)
    \/ \E r \in CreateReqs : InsertArticle(r)
    \/ \E a \in ArticleIds, s \in STATUS_CHOICES : SaveArticle(a, s)
    \/ \E q \in SUBSET StoredArticles : make_published(q)
    \/ \E q \in SUBSET StoredArticles : make_draft(q)
    \/ \E a \in ArticleIds : increment_views(a)

SpecArticle == InitArticle /\ [][NextArticle]_vars

----------------------------------------------------------------------------
(* Claims about articles                                                   *)

\* C1: after any sequence of Article operations (create, save, admin bulk
\* publish / draft, view-count increment) every stored Article has
\* published_at non-null if and only if its status is 'published'.
C1_PublishedAtIffPublished ==
    \A a \in StoredArticles :
        (articles[a].published_at # None) <=> (articles[a].status = "published")

\* C7: a save of an Article that is already published with published_at set
\* leaves published_at unchanged, and published_at receives a new value only
\* in a step that moves the stored Article from a non-published status into
\* 'published'.
C7_PublishedAtAssignedOnlyOnPublish ==
    [][\A a \in ArticleIds :
          articles[a].exists /\ articles'[a].exists =>
              /\ ( /\ articles[a].status = "published"
                   /\ articles[a].published_at # None
                   /\ articles'[a].status = "published" )
                    => articles'[a].published_at = articles[a].published_at
              /\ ( /\ articles'[a].published_at # None
                   /\ articles'[a].published_at # articles[a].published_at )
                    => ( /\ articles[a].status # "published"
                         /\ articles'[a].status = "published" )]_vars

\* C8: in any order or interleaving of create requests every creation
\* succeeds (none ends in IntegrityError) and the stored slugs of Articles
\* with the same title are pairwise distinct.
C8_SameTitleCreatesAllSucceed ==
    /\ \A r \in CreateReqs : creq[r].pc # "failed"
    /\ \A a \in StoredArticles, b \in StoredArticles :
          a # b /\ articles[a].title = articles[b].title
              => articles[a].slug # articles[b].slug

----------------------------------------------------------------------------
(* Comments: threading                                                     *)

\* Two published articles, one per author, for comments to attach to
PublishedArticle(author, title, t) ==
    [exists |-> TRUE, author |-> author, title |-> title, slug |-> slugify(title),
     status |-> "published", published_at |-> t, views_count |-> 0]

TwoArticles ==
    /\ articles = [a \in ArticleIds |->
                     IF a = 1 THEN PublishedArticle("A", <<"F", "o", "o">>, 1)
                     ELSE IF a = 2 THEN PublishedArticle("B", <<"F", "o", "o", " ", "1">>, 2)
                     ELSE NoRow]
    /\ now = 3
    /\ creq = [r \in CreateReqs |-> IdleCreate]

Targets == {1, 2}               \* object_id of the commented article

StoredComments == {c \in CommentIds : comments[c].exists}
FreeCommentIds == {c \in CommentIds : ~comments[c].exists}

\* Comment.get_thread_depth of an instance whose parent is p (None or an id):
\* the number of ancestors reached by following parent links.
RECURSIVE get_thread_depth(_)
get_thread_depth(p) ==
    IF p = None THEN 0 ELSE 1 + get_thread_depth(comments[p].parent)

CleanDepthLimit == 3

\* Comment.clean with the depth test off by one (> 4 instead of > 3)
Comment_clean_OffByOne(target, parent) ==
    IF parent # None /\ comments[parent].target # target
    THEN "Parent comment must be on the same object"
    ELSE IF parent # None /\ get_thread_depth(parent) > CleanDepthLimit + 1
    THEN "Comment thread too deep"
    ELSE "ok"

\* Comment.clean: the ValidationError it raises, or "ok"
Comment_clean(target, parent) ==
    IF parent # None /\ comments[parent].target # target
    THEN "Parent comment must be on the same object"
    ELSE IF parent # None /\ get_thread_depth(parent) > CleanDepthLimit
    THEN "Comment thread too deep"
    ELSE "ok"

\* CommentReplyForm.clean / CommentCreateSerializer.validate: the parent is
\* already at the deepest level
ReplyDepthLimit == 3
ParentTooDeep(parent) == get_thread_depth(comments[parent].parent) >= ReplyDepthLimit

\* The fields of a Comment instance (models.py 43-79)
CommentRow(author, target, parent) ==
    [exists |-> TRUE, author |-> author, target |-> target, parent |-> parent,
     is_active |-> TRUE, likes_count |-> 0,
     content |-> "first", is_edited |-> FALSE, created_at |-> now]

\* hasattr(instance, name) for a row of the comments table
HasAttr(row, name) == name \in DOMAIN row

\* notifications.signals.create_comment_notification: the rows it creates.
\* It reads instance.post; a Comment has no such attribute, so the handler
\* raises AttributeError before Notification.objects.create (and the module
\* that defines it imports apps.posts and apps.accounts, which do not
\* exist, so no process gets as far as connecting it).
create_comment_notification(instance, created) ==
    IF created /\ HasAttr(instance, "post")
    THEN IF instance.author # articles[instance.post].author
         THEN {[exists |-> TRUE, recipient |-> articles[instance.post].author,
                sender |-> instance.author, notification_type |-> "comment",
                is_read |-> FALSE, read_at |-> None]}
         ELSE {}
    ELSE {}

FreeNotificationIds == {n \in NotificationIds : ~notifications[n].exists}

\* Notification.objects.create for each row of a set of at most one row
StoreNotifications(rows) ==
    IF rows = {} \/ FreeNotificationIds = {} THEN notifications
    ELSE LET n == CHOOSE x \in FreeNotificationIds : \A y \in FreeNotificationIds : x <= y
             row == CHOOSE x \in rows : TRUE
         IN  [notifications EXCEPT ![n] = row]

\* Comment.save of a new instance: clean(), INSERT, then the post_save
\* receivers.  lastComment keeps what the caller sees, the error message
\* or "created", and how many ancestors the submitted comment has.
SaveNewComment(author, target, parent) ==
    IF Comment_clean(target, parent) # "ok"
    THEN /\ lastComment' = [result |-> Comment_clean(target, parent),
                            depth |-> get_thread_depth(parent)]
         /\ UNCHANGED <<comments, notifications>>
    ELSE LET c == CHOOSE x \in FreeCommentIds : \A y \in FreeCommentIds : x <= y
             row == CommentRow(author, target, parent)
         IN  /\ comments' = [comments EXCEPT ![c] = row]
             /\ notifications' = StoreNotifications(create_comment_notification(row, TRUE))
             /\ lastComment' = [result |-> "created",
                                depth |-> get_thread_depth(parent)]

\* Comment.objects.create(...) called directly
ModelCreateComment(author, target, parent) ==
    /\ FreeCommentIds # {}
    /\ articles[target].exists
    /\ parent # None => comments[parent].exists
    /\ SaveNewComment(author, target, parent)
    /\ UNCHANGED <<vars_article, vars_like, vars_push, vars_rate, vars_ext>>

\* CommentCreateView with CommentForm: a root comment on the target
FormCreateComment(author, target) ==
    /\ FreeCommentIds # {}
    /\ articles[target].exists
    /\ SaveNewComment(author, target, None)
    /\ UNCHANGED <<vars_article, vars_like, vars_push, vars_rate, vars_ext>>

\* comment_reply_view with CommentReplyForm: the parent must be active;
\* the target is copied from the parent
ReplyFormCreateComment(author, parent) ==
    /\ FreeCommentIds # {}
    /\ comments[parent].exists
    /\ comments[parent].is_active
    /\ IF ParentTooDeep(parent)
       THEN /\ lastComment' = [result |-> "Cannot reply to comments more than 3 levels deep",
                               depth |-> get_thread_depth(parent)]
            /\ UNCHANGED <<comments, notifications>>
       ELSE SaveNewComment(author, comments[parent].target, parent)
    /\ UNCHANGED <<vars_article, vars_like, vars_push, vars_rate, vars_ext>>

\* CommentViewSet.create with CommentCreateSerializer
ApiCreateComment(author, target, parent) ==
    /\ FreeCommentIds # {}
    /\ articles[target].exists
    /\ parent # None => comments[parent].exists
    /\ IF parent # None /\ comments[parent].target # target
       THEN /\ lastComment' = [result |-> "Parent comment must be on the same object",
                               depth |-> get_thread_depth(parent)]
            /\ UNCHANGED <<comments, notifications>>
       ELSE IF parent # None /\ ParentTooDeep(parent)
       THEN /\ lastComment' = [result |-> "Cannot reply to comments more than 3 levels deep",
                               depth |-> get_thread_depth(parent)]
            /\ UNCHANGED <<comments, notifications>>
       ELSE SaveNewComment(author, target, parent)
    /\ UNCHANGED <<vars_article, vars_like, vars_push, vars_rate, vars_ext>>

InitComment ==
    /\ TwoArticles
    /\ EmptyComments
    /\ EmptyLikes
    /\ EmptyNotifications
    /\ EmptyRate
    /\ EmptyExt

ParentChoices == StoredComments \cup {None}

NextComment ==
    \/ \E u \in Users, t \in Targets, p \in ParentChoices : ModelCreateComment(u, t, p)
    \/ \E u \in Users, t \in Targets : FormCreateComment(u, t)
    \/ \E u \in Users, p \in StoredComments : ReplyFormCreateComment(u, p)
    \/ \E u \in Users, t \in Targets, p \in ParentChoices : ApiCreateComment(u, t, p)

SpecComment == InitComment /\ [][NextComment]_vars

----------------------------------------------------------------------------
(* Claims about comment creation                                           *)

TooDeepMessages == {"Comment thread too deep",
                    "Cannot reply to comments more than 3 levels deep"}

CommentNotifications(recipient, sender) ==
    {n \in NotificationIds : /\ notifications[n].exists
                             /\ notifications[n].recipient = recipient
                             /\ notifications[n].sender = sender
                             /\ notifications[n].notification_type = "comment"}

CommentsOn(articleAuthor, commenter) ==
    {c \in StoredComments : /\ comments[c].author = commenter
                            /\ articles[comments[c].target].author = articleAuthor}

\* C5: each comment by B on an article of a different user A has created
\* exactly one Notification with recipient A, sender B and type 'comment'.
C5_CommentCreatesOneNotification ==
    \A a \in Users, b \in Users :
        a # b /\ Cardinality(CommentsOn(a, b)) <= MaxNotifications
            => Cardinality(CommentNotifications(a, b)) = Cardinality(CommentsOn(a, b))

----------------------------------------------------------------------------
(* Comments: the like toggle                                               *)
(* CommentViewSet.like and comment_like_view run the same statements; the  *)
(* post_save / post_delete receivers of CommentLike run synchronously      *)
(* inside the INSERT / DELETE call.  Every database statement is one step. *)

MaxLikedComments == 2

LikedComments == 1..MaxLikedComments

\* comment.likes.count()
LikesOf(c) == {l \in likes : l[1] = c}

\* likes_count is a PositiveIntegerField; the code clamps with max(0, .)
Max0(n) == IF n < 0 THEN 0 ELSE n

\* Comments on article 1 for users to like: likes_count 0, no CommentLike
InitLike ==
    /\ TwoArticles
    /\ comments = [c \in CommentIds |->
                     IF c \in LikedComments THEN CommentRow("A", 1, None) ELSE NoRow]
    /\ lastComment = [result |-> "none", depth |-> 0]
    /\ EmptyLikes
    /\ EmptyNotifications
    /\ EmptyRate
    /\ EmptyExt

InFlight(r) == lreq[r].pc \notin {"idle", "done"}

\* self.get_object() / get_object_or_404(Comment, id=comment_id, is_active=True):
\* the view's Comment instance holds the likes_count read here.
LoadComment(r, c, u) ==
    /\ lreq[r].pc = "idle"
    /\ comments[c].exists /\ comments[c].is_active
    /\ lreq' = [lreq EXCEPT ![r] = [pc |-> "get", comment |-> c, user |-> u,
                                    likes_count |-> comments[c].likes_count]]
    /\ UNCHANGED <<vars_article, vars_comment, likes, vars_notif, vars_rate, vars_ext>>

\* get_or_create, the lookup: an existing row means created = False
GetLike(r) ==
    /\ lreq[r].pc = "get"
    /\ lreq' = [lreq EXCEPT ![r].pc =
                  IF <<lreq[r].comment, lreq[r].user>> \in likes THEN "delete" ELSE "create"]
    /\ UNCHANGED <<vars_article, vars_comment, likes, vars_notif, vars_rate, vars_ext>>

\* get_or_create, the INSERT: unique_together rejects a second row
\* (IntegrityError), get_or_create then fetches the row: created = False.
CreateLike(r) ==
    /\ lreq[r].pc = "create"
    /\ IF <<lreq[r].comment, lreq[r].user>> \in likes
       THEN /\ lreq' = [lreq EXCEPT ![r].pc = "delete"]
            /\ UNCHANGED likes
       ELSE /\ likes' = likes \cup {<<lreq[r].comment, lreq[r].user>>}
            /\ lreq' = [lreq EXCEPT ![r].pc = "post_save_count"]
    /\ UNCHANGED <<vars_article, vars_comment, vars_notif, vars_rate, vars_ext>>

\* comment_like_post_save: comment.likes_count = comment.likes.count().
\* instance.comment is the object passed to get_or_create, the view's own
\* Comment instance.
comment_like_post_save_count(r) ==
    /\ lreq[r].pc = "post_save_count"
    /\ lreq' = [lreq EXCEPT ![r].pc = "post_save_save",
                            ![r].likes_count = Cardinality(LikesOf(lreq[r].comment))]
    /\ UNCHANGED <<vars_article, vars_comment, likes, vars_notif, vars_rate, vars_ext>>

\* comment_like_post_save: comment.save(update_fields=['likes_count'])
comment_like_post_save_save(r) ==
    /\ lreq[r].pc = "post_save_save"
    /\ comments' = [comments EXCEPT ![lreq[r].comment].likes_count = lreq[r].likes_count]
    /\ lreq' = [lreq EXCEPT ![r].pc = "liked"]
    /\ UNCHANGED <<vars_article, lastComment, likes, vars_notif, vars_rate, vars_ext>>

\* the view, created: comment.likes_count += 1; comment.save(update_fields=...)
SaveLiked(r) ==
    /\ lreq[r].pc = "liked"
    /\ comments' = [comments EXCEPT ![lreq[r].comment].likes_count = lreq[r].likes_count + 1]
    /\ lreq' = [lreq EXCEPT ![r].pc = "done", ![r].likes_count = lreq[r].likes_count + 1]
    /\ UNCHANGED <<vars_article, lastComment, likes, vars_notif, vars_rate, vars_ext>>

\* the view, not created: like.delete()
DeleteLike(r) ==
    /\ lreq[r].pc = "delete"
    /\ likes' = likes \ {<<lreq[r].comment, lreq[r].user>>}
    /\ lreq' = [lreq EXCEPT ![r].pc = "post_delete"]
    /\ UNCHANGED <<vars_article, vars_comment, vars_notif, vars_rate, vars_ext>>

\* comment_like_post_delete: instance.comment is loaded from the database, a
\* Comment instance of its own; likes_count = max(0, count()) is saved.
comment_like_post_delete(r) ==
    /\ lreq[r].pc = "post_delete"
    /\ comments' = [comments EXCEPT ![lreq[r].comment].likes_count =
                        Max0(Cardinality(LikesOf(lreq[r].comment)))]
    /\ lreq' = [lreq EXCEPT ![r].pc = "unliked"]
    /\ UNCHANGED <<vars_article, lastComment, likes, vars_notif, vars_rate, vars_ext>>

\* the view, not created: comment.likes_count = max(0, likes_count - 1); save
SaveUnliked(r) ==
    /\ lreq[r].pc = "unliked"
    /\ comments' = [comments EXCEPT ![lreq[r].comment].likes_count =
                        Max0(lreq[r].likes_count - 1)]
    /\ lreq' = [lreq EXCEPT ![r].pc = "done", ![r].likes_count = Max0(lreq[r].likes_count - 1)]
    /\ UNCHANGED <<vars_article, lastComment, likes, vars_notif, vars_rate, vars_ext>>

\* Requests are served by concurrent workers
NextLike ==
    \/ \E r \in LikeReqs, c \in LikedComments, u \in Users : LoadComment(r, c, u)
    \/ \E r \in LikeReqs : GetLike(r)
    \/ \E r \in LikeReqs : CreateLike(r)
    \/ \E r \in LikeReqs : comment_like_post_save_count(r)
    \/ \E r \in LikeReqs : comment_like_post_save_save(r)
    \/ \E r \in LikeReqs : SaveLiked(r)
    \/ \E r \in LikeReqs : DeleteLike(r)
    \/ \E r \in LikeReqs : comment_like_post_delete(r)
    \/ \E r \in LikeReqs : SaveUnliked(r)

SpecLike == InitLike /\ [][NextLike]_vars

\* One request at a time: a request is taken only when none is in flight
NextLikeSeq ==
    \/ \E r \in LikeReqs, c \in LikedComments, u \in Users :
          (\A q \in LikeReqs : ~InFlight(q)) /\ LoadComment(r, c, u)
    \/ \E r \in LikeReqs : GetLike(r)
    \/ \E r \in LikeReqs : CreateLike(r)
    \/ \E r \in LikeReqs : comment_like_post_save_count(r)
    \/ \E r \in LikeReqs : comment_like_post_save_save(r)
    \/ \E r \in LikeReqs : SaveLiked(r)
    \/ \E r \in LikeReqs : DeleteLike(r)
    \/ \E r \in LikeReqs : comment_like_post_delete(r)
    \/ \E r \in LikeReqs : SaveUnliked(r)

SpecLikeSeq == InitLike /\ [][NextLikeSeq]_vars

----------------------------------------------------------------------------
(* Claims about the like toggle                                            *)

Quiescent == \A r \in LikeReqs : ~InFlight(r)

TogglesDone(c, u) ==
    {r \in LikeReqs : lreq[r].pc = "done" /\ lreq[r].comment = c /\ lreq[r].user = u}

OnlyUserOn(c, u) ==
    \A r \in LikeReqs : lreq[r].pc # "idle" /\ lreq[r].comment = c => lreq[r].user = u

\* C2: from likes_count 0 and no CommentLike, one toggle by U leaves one
\* CommentLike row for (comment, U) and a stored likes_count of 1; a second
\* toggle by U leaves no row and a stored likes_count of 0.  Requests are
\* served one at a time.
C2_LikeToggleRoundTrip ==
    \A c \in LikedComments, u \in Users :
        Quiescent /\ OnlyUserOn(c, u) =>
            /\ Cardinality(TogglesDone(c, u)) = 1
                  => <<c, u>> \in likes /\ comments[c].likes_count = 1
            /\ Cardinality(TogglesDone(c, u)) = 2
                  => <<c, u>> \notin likes /\ comments[c].likes_count = 0

\* C3: once every like-toggle request of any interleaving has completed, each
\* comment's stored likes_count equals its number of CommentLike rows, and
\* likes_count is never negative.
C3_LikesCountMatchesRows ==
    /\ \A c \in LikedComments : comments[c].likes_count >= 0
    /\ Quiescent =>
          \A c \in LikedComments : comments[c].likes_count = Cardinality(LikesOf(c))

----------------------------------------------------------------------------
(* Notifications: read state and real-time push                            *)

StoredNotifications == {n \in NotificationIds : notifications[n].exists}

\* Notification.objects.filter(recipient=u, is_read=False)
Unread(u) ==
    {n \in StoredNotifications : notifications[n].recipient = u /\ ~notifications[n].is_read}

\* the count query without its is_read=False filter
UnreadCount_IgnoringIsRead(u) ==
    Cardinality({n \in StoredNotifications : notifications[n].recipient = u})

\* Notification.objects.filter(recipient=u, is_read=False).count()
UnreadCount(u) == Cardinality(Unread(u))

\* The names `from django.db import models` binds that the model methods
\* use; django.db.models has no attribute `timezone`.
DjangoDbModels == {"Model", "ForeignKey", "CharField", "TextField", "BooleanField",
                   "DateTimeField", "PositiveIntegerField", "Index", "CASCADE"}

\* Notification.mark_as_read on a loaded row at time t: the row the database
\* holds afterwards, and whether the call raised AttributeError.
mark_as_read(row, t) ==
    IF ~row.is_read
    THEN IF "timezone" \in DjangoDbModels
         THEN [raised |-> FALSE, row |-> [row EXCEPT !.is_read = TRUE, !.read_at = t]]
         ELSE [raised |-> TRUE, row |-> row]
    ELSE [raised |-> FALSE, row |-> row]

\* queryset.update(is_read=value) on the rows of a set
UpdateIsRead(rows, value) ==
    [n \in NotificationIds |->
        IF n \in rows THEN [notifications[n] EXCEPT !.is_read = value] ELSE notifications[n]]

InitNotif ==
    /\ TwoArticles
    /\ EmptyComments
    /\ EmptyLikes
    /\ EmptyNotifications
    /\ EmptyRate
    /\ EmptyExt

unchanged_by_notif == <<vars_article, vars_comment, vars_like, vars_rate, vars_ext>>

\* create_follow_notification, Notification.objects.create: follower starts
\* following `following`; the row gets the next id n, and the handler goes
\* on to send_notification_to_user(notification).  The handler is modelled
\* as written; the Follow model whose post_save triggers it is not part of
\* the repository, so the event itself is an input.
create_follow_notification(n, follower, following) ==
    /\ follower # following
    /\ n \in FreeNotificationIds
    /\ \A m \in FreeNotificationIds : n <= m
    /\ notifications' = [notifications EXCEPT ![n] =
           [exists |-> TRUE, recipient |-> following, sender |-> follower,
            notification_type |-> "follow", is_read |-> FALSE, read_at |-> None]]
    /\ nreq' = [nreq EXCEPT ![n] = [pc |-> "notification_message", count |-> 0]]
    /\ UNCHANGED <<conns, lastMark, unchanged_by_notif>>

\* user.id of the stored users; AnonymousUser has id None
AnonymousUser == "anonymous"
UserId(u) == CASE u = "A" -> 1 [] u = "B" -> 2 [] OTHER -> None

\* f'notifications_{user.id}'
GroupName(u) == <<"notifications_", UserId(u)>>

\* the groups of the channel layer that hold connection k's channel
GroupsOf(k) ==
    IF conns[k].state = "open" /\ "room_group_name" \in DOMAIN conns[k]
    THEN {conns[k].room_group_name}
    ELSE {}

\* the channels of group notifications_<u.id>
GroupChannels(u) == {k \in Conns : GroupName(u) \in GroupsOf(k)}

\* channel_layer.group_send(group_name, message)
group_send(u, message) ==
    [k \in Conns |-> IF k \in GroupChannels(u)
                     THEN [conns[k] EXCEPT !.inbox = Append(conns[k].inbox, message)]
                     ELSE conns[k]]

\* send_notification_to_user, first group_send (type notification_message)
SendNotificationMessage(n) ==
    /\ nreq[n].pc = "notification_message"
    /\ conns' = group_send(notifications[n].recipient,
                           [type |-> "notification_message", notification |-> n])
    /\ nreq' = [nreq EXCEPT ![n].pc = "count"]
    /\ UNCHANGED <<notifications, lastMark, unchanged_by_notif>>

\* send_notification_to_user, the unread count query
CountUnread(n) ==
    /\ nreq[n].pc = "count"
    /\ nreq' = [nreq EXCEPT ![n].pc = "unread_count_update",
                            ![n].count = UnreadCount(notifications[n].recipient)]
    /\ UNCHANGED <<notifications, conns, lastMark, unchanged_by_notif>>

\* send_notification_to_user, second group_send (type unread_count_update)
SendUnreadCount(n) ==
    /\ nreq[n].pc = "unread_count_update"
    /\ conns' = group_send(notifications[n].recipient,
                           [type |-> "unread_count_update", count |-> nreq[n].count])
    /\ nreq' = [nreq EXCEPT ![n].pc = "done"]
    /\ UNCHANGED <<notifications, lastMark, unchanged_by_notif>>

\* close() before accept(): the handshake is refused
Rejected(u) == [state |-> "rejected", user |-> u]

\* connect admitting every caller, anonymous ones included
connect_NoAnonymousCheck(k, u) ==
    /\ conns[k].state = "new"
    /\ conns' = [conns EXCEPT ![k] = [state |-> "open", user |-> u,
                                      room_group_name |-> GroupName(u),
                                      inbox |-> <<>>, frames |-> <<>>]]
    /\ UNCHANGED <<notifications, nreq, lastMark, unchanged_by_notif>>

\* NotificationConsumer.connect with scope["user"] = u: an anonymous caller
\* is closed; for any other, group_add(room_group_name, channel_name), accept
connect(k, u) ==
    /\ conns[k].state = "new"
    /\ conns' = [conns EXCEPT ![k] =
           IF u = AnonymousUser
           THEN Rejected(u)
           ELSE [state |-> "open", user |-> u, room_group_name |-> GroupName(u),
                 inbox |-> <<>>, frames |-> <<>>]]
    /\ UNCHANGED <<notifications, nreq, lastMark, unchanged_by_notif>>

\* the socket is gone: its channel and the frames it carried are dropped
Closed(k) == [state |-> "closed"]

\* disconnect without its hasattr test: a consumer that never subscribed has
\* no room_group_name to read
disconnect_NoHasattrCheck(k) ==
    /\ conns[k].state \in {"open", "rejected"}
    /\ conns' = [conns EXCEPT ![k] =
           IF "room_group_name" \in DOMAIN conns[k]
           THEN Closed(k)
           ELSE [state |-> "closed", raised |-> "AttributeError"]]
    /\ UNCHANGED <<notifications, nreq, lastMark, unchanged_by_notif>>

\* NotificationConsumer.disconnect, called when the socket closes, also after
\* a refused handshake: group_discard(room_group_name, channel_name) if the
\* consumer has a room_group_name, nothing otherwise
disconnect(k) ==
    /\ conns[k].state \in {"open", "rejected"}
    /\ conns' = [conns EXCEPT ![k] = Closed(k)]
    /\ UNCHANGED <<notifications, nreq, lastMark, unchanged_by_notif>>

\* NotificationConsumer.notification_message / unread_count_update: the frame
\* sent to the client for a channel-layer message
Frame(message) ==
    IF message.type = "notification_message"
    THEN [type |-> "notification", notification |-> message.notification]
    ELSE [type |-> "unread_count", count |-> message.count]

\* the consumer handles the oldest message of its channel
Dispatch(k) ==
    /\ conns[k].state = "open"
    /\ conns[k].inbox # <<>>
    /\ conns' = [conns EXCEPT ![k].inbox = Tail(conns[k].inbox),
                              ![k].frames = Append(conns[k].frames, Frame(Head(conns[k].inbox)))]
    /\ UNCHANGED <<notifications, nreq, lastMark, unchanged_by_notif>>

\* the lookup without its recipient filter
MarkOutcome_AnyRecipient(u, n) ==
    IF ~notifications[n].exists THEN "not_found"
    ELSE IF mark_as_read(notifications[n], now).raised THEN "AttributeError"
    ELSE "success"

\* what a caller of get(id=n, recipient=u) followed by mark_as_read() sees
MarkOutcome(u, n) ==
    IF ~(notifications[n].exists /\ notifications[n].recipient = u) THEN "not_found"
    ELSE IF mark_as_read(notifications[n], now).raised THEN "AttributeError"
    ELSE "success"

\* the table after that call
AfterMark(u, n) ==
    IF MarkOutcome(u, n) = "not_found" THEN notifications
    ELSE [notifications EXCEPT ![n] = mark_as_read(notifications[n], now).row]

\* views.mark_notification_read: lastMark is the response (success, 404
\* 'Notification not found', or the unhandled exception)
mark_notification_read(u, n) ==
    /\ notifications' = AfterMark(u, n)
    /\ lastMark' = [tick |-> 1 - lastMark.tick, id |-> n, outcome |-> MarkOutcome(u, n)]
    /\ UNCHANGED <<nreq, conns, unchanged_by_notif>>

\* NotificationConsumer.receive, action mark_read: only DoesNotExist is
\* caught, any other exception ends the consumer and closes the socket.
receive_mark_read(k, n) ==
    /\ conns[k].state = "open"
    /\ notifications' = AfterMark(conns[k].user, n)
    /\ conns' = IF MarkOutcome(conns[k].user, n) = "AttributeError"
                THEN [conns EXCEPT ![k] = Closed(k)]
                ELSE conns
    /\ UNCHANGED <<nreq, lastMark, unchanged_by_notif>>

\* views.mark_all_notifications_read
mark_all_notifications_read(u) ==
    /\ Unread(u) # {}
    /\ notifications' = UpdateIsRead(Unread(u), TRUE)
    /\ UNCHANGED <<nreq, conns, lastMark, unchanged_by_notif>>

\* NotificationConsumer.receive, action mark_all_read
receive_mark_all_read(k) ==
    /\ conns[k].state = "open"
    /\ Unread(conns[k].user) # {}
    /\ notifications' = UpdateIsRead(Unread(conns[k].user), TRUE)
    /\ UNCHANGED <<nreq, conns, lastMark, unchanged_by_notif>>

\* NotificationAdmin.mark_as_read / mark_as_unread: queryset.update(is_read=...)
AdminMarkIsRead(queryset, value) ==
    /\ queryset # {}
    /\ notifications' = UpdateIsRead(queryset, value)
    /\ notifications' # notifications
    /\ UNCHANGED <<nreq, conns, lastMark, unchanged_by_notif>>

NextNotif ==
    \/ \E n \in NotificationIds, f \in Users, g \in Users : create_follow_notification(n, f, g)
    \/ \E n \in NotificationIds : SendNotificationMessage(n)
    \/ \E n \in NotificationIds : CountUnread(n)
    \/ \E n \in NotificationIds : SendUnreadCount(n)
    \/ \E k \in Conns, u \in Users : connect(k, u)
    \/ \E k \in Conns : disconnect(k)
    \/ \E k \in Conns : Dispatch(k)
    \/ \E u \in Users, n \in NotificationIds : mark_notification_read(u, n)
    \/ \E k \in Conns, n \in NotificationIds : receive_mark_read(k, n)
    \/ \E u \in Users : mark_all_notifications_read(u)
    \/ \E k \in Conns : receive_mark_all_read(k)
    \/ \E q \in SUBSET StoredNotifications, v \in BOOLEAN : AdminMarkIsRead(q, v)

SpecNotif == InitNotif /\ [][NextNotif]_vars

----------------------------------------------------------------------------
(* Claims about notifications                                              *)

\* C6: the first mark-read of an unread Notification sets is_read and
\* read_at; a mark-read of an already read Notification changes neither.
C6_MarkReadSetsReadAtOnce ==
    [][lastMark'.tick # lastMark.tick /\ lastMark'.outcome # "not_found" =>
          LET n == lastMark'.id
          IN  IF notifications[n].is_read
              THEN notifications'[n] = notifications[n]
              ELSE /\ notifications'[n].is_read
                   /\ notifications'[n].read_at # None]_vars

\* everything connection k has been sent: frames delivered, then the frames
\* of the messages still queued on its channel
RECURSIVE Frames(_)
Frames(messages) ==
    IF messages = <<>> THEN <<>> ELSE <<Frame(Head(messages))>> \o Frames(Tail(messages))

Stream(k) == conns[k].frames \o Frames(conns[k].inbox)

NotificationFrame(n) == [type |-> "notification", notification |-> n]
UnreadCountFrame(c) == [type |-> "unread_count", count |-> c]

Positions(k, frame) == {i \in DOMAIN Stream(k) : Stream(k)[i] = frame}

OpenFor(u) == {k \in Conns : conns[k].state = "open" /\ conns[k].user = u}

\* C10, order: on an open connection, once the handler of notification n has
\* finished, the one `notification` frame carrying n is followed by an
\* `unread_count` frame carrying the count that handler queried.
FramesInOrder ==
    \A k \in Conns, n \in NotificationIds :
        conns[k].state = "open" /\ nreq[n].pc = "done" /\ Positions(k, NotificationFrame(n)) # {}
            => /\ Cardinality(Positions(k, NotificationFrame(n))) = 1
               /\ \E i \in Positions(k, NotificationFrame(n)),
                     j \in Positions(k, UnreadCountFrame(nreq[n].count)) : i < j

IsPrefix(s, t) == Len(s) <= Len(t) /\ \A i \in DOMAIN s : s[i] = t[i]

\* C10, delivery: the handler's sends reach every connection the recipient
\* has open, the notification message first and the count message second,
\* and a connection's frames keep the order in which they were sent.
PushedToOpenConnections ==
    /\ \A n \in NotificationIds :
        /\ nreq[n].pc = "notification_message" /\ nreq'[n].pc = "count"
              => \A k \in OpenFor(notifications[n].recipient) :
                    Stream(k)' = Stream(k) \o <<NotificationFrame(n)>>
        /\ nreq[n].pc = "unread_count_update" /\ nreq'[n].pc = "done"
              => \A k \in OpenFor(notifications[n].recipient) :
                    Stream(k)' = Stream(k) \o <<UnreadCountFrame(nreq[n].count)>>
    /\ \A k \in Conns :
          conns[k].state = "open" /\ conns'[k].state = "open"
              => IsPrefix(Stream(k), Stream(k)')

\* C10, count: the count the handler queries is the recipient's number of
\* unread Notification rows at that moment; the new row is among them
\* unless it has been marked read since its creation.
CountIsUnreadTotal ==
    \A n \in NotificationIds :
        nreq[n].pc = "count" /\ nreq'[n].pc = "unread_count_update"
            => /\ nreq'[n].count =
                     Cardinality({m \in NotificationIds :
                                     /\ notifications[m].exists
                                     /\ notifications[m].recipient = notifications[n].recipient
                                     /\ notifications[m].is_read = FALSE})
               /\ ~notifications[n].is_read => nreq'[n].count >= 1

----------------------------------------------------------------------------
(* Rate limiting                                                           *)
(* RateLimitMiddleware.process_request and RateLimitPermission.has_permission *)
(* read the counter with cache.get and write it back with cache.set: two   *)
(* cache operations, two steps.  A key expires when its timeout has passed *)
(* since its last cache.set; the requests between two expiries of a key    *)
(* fall in one window.                                                     *)

MiddlewareLimit == 100
DefaultRequestsPerHour == 1000
Headroom == 2

DEBUG == FALSE                  \* settings.DEBUG of a deployed site

skip_paths == {"admin", "static", "media", "health"}
Paths == {<<"admin", "login">>, <<"articles">>}

\* any(request.path.startswith(path) for path in skip_paths)
SkipsRateLimit(path) == Head(path) \in skip_paths

PermissionKeys == {"rate_limit:user:A", "rate_limit:ip:10.0.0.1"}

RateLimitOf(key) ==
    IF key \in MiddlewareKeys THEN MiddlewareLimit ELSE DefaultRequestsPerHour

\* cache.get(cache_key, 0)
CacheGet(key) == IF cache[key] = Absent THEN 0 ELSE cache[key]

\* Each identity has been admitted a few requests short of its ceiling in
\* the current window.
InitRate ==
    /\ TwoArticles
    /\ EmptyComments
    /\ EmptyLikes
    /\ EmptyNotifications
    /\ cache = [k \in RateKeys |-> RateLimitOf(k) - Headroom]
    /\ admitted = [k \in RateKeys |-> RateLimitOf(k) - Headroom]
    /\ rreq = [r \in RateReqs |-> [pc |-> "idle"]]
    /\ EmptyExt

unchanged_by_rate == <<vars_article, vars_comment, vars_like, vars_notif, vars_ext>>

\* RateLimitMiddleware.process_request up to cache.get
process_request(r, key, path) ==
    /\ rreq[r].pc = "idle"
    /\ key \in MiddlewareKeys
    /\ rreq' = [rreq EXCEPT ![r] =
                  IF DEBUG \/ SkipsRateLimit(path)
                  THEN [pc |-> "done", key |-> key, outcome |-> "not limited"]
                  ELSE [pc |-> "got", key |-> key, requests |-> CacheGet(key)]]
    /\ UNCHANGED <<cache, admitted, unchanged_by_rate>>

\* RateLimitPermission.has_permission up to cache.get
has_permission(r, key) ==
    /\ rreq[r].pc = "idle"
    /\ key \in PermissionKeys
    /\ rreq' = [rreq EXCEPT ![r] = [pc |-> "got", key |-> key, requests |-> CacheGet(key)]]
    /\ UNCHANGED <<cache, admitted, unchanged_by_rate>>

\* the rest of either limiter: reject at the ceiling (429 / False), else
\* cache.set(cache_key, requests + 1, timeout) and let the request through
CheckAndSet(r) ==
    /\ rreq[r].pc = "got"
    /\ IF rreq[r].requests >= RateLimitOf(rreq[r].key)
       THEN /\ rreq' = [rreq EXCEPT ![r] = [pc |-> "done", key |-> rreq[r].key,
                                            outcome |-> "rejected"]]
            /\ UNCHANGED <<cache, admitted>>
       ELSE /\ cache' = [cache EXCEPT ![rreq[r].key] = rreq[r].requests + 1]
            /\ admitted' = [admitted EXCEPT ![rreq[r].key] = admitted[rreq[r].key] + 1]
            /\ rreq' = [rreq EXCEPT ![r] = [pc |-> "done", key |-> rreq[r].key,
                                            outcome |-> "admitted"]]
    /\ UNCHANGED unchanged_by_rate

\* the timeout of a key passes without a cache.set: the entry is gone and a
\* new window begins
Expire(key) ==
    /\ cache[key] # Absent
    /\ cache' = [cache EXCEPT ![key] = Absent]
    /\ admitted' = [admitted EXCEPT ![key] = 0]
    /\ UNCHANGED <<rreq, unchanged_by_rate>>

NextRate ==
    \/ \E r \in RateReqs, k \in MiddlewareKeys, p \in Paths : process_request(r, k, p)
    \/ \E r \in RateReqs, k \in PermissionKeys : has_permission(r, k)
    \/ \E r \in RateReqs : CheckAndSet(r)
    \/ \E k \in RateKeys : Expire(k)

SpecRate == InitRate /\ [][NextRate]_vars

\* C9: no identity is admitted more than its ceiling of requests within one
\* window, also when its requests are processed concurrently.
C9_AdmittedAtMostCeiling ==
    \A k \in RateKeys : admitted[k] <= RateLimitOf(k)

----------------------------------------------------------------------------
(* Notifications: the push under every channel-layer configuration          *)
(* send_notification_to_user runs inside the post_save receiver, inside the *)
(* save() of the operation that triggered the notification; nothing on that *)
(* path catches an exception of group_send.                                 *)

\* what get_channel_layer() can find: no CHANNEL_LAYERS entry (None), a layer
\* whose broker answers, a layer whose broker refuses connections
ChannelLayers == {"unconfigured", "available", "unavailable"}

InitDeliver ==
    /\ TwoArticles
    /\ EmptyComments
    /\ EmptyLikes
    /\ EmptyNotifications
    /\ EmptyRate
    /\ layer \in ChannelLayers
    /\ lastFrame = [tick |-> 0, conn |-> None, text |-> <<>>, outcome |-> "none"]
    /\ lastDelete = [tick |-> 0, user |-> "none", id |-> None, outcome |-> "none"]
    /\ EmptyArticleCache
    /\ RegisteredUsers
    /\ IdleAccounts

unchanged_by_deliver ==
    <<vars_article, vars_comment, vars_like, vars_rate, lastFrame, lastDelete, vars_acache,
      vars_users, vars_account, vars_worker, vars_views, vars_window>>

\* send_notification_to_user, `if channel_layer:` with channel_layer None:
\* the function returns without sending
SkipPush(n) ==
    /\ layer = "unconfigured"
    /\ nreq[n].pc = "notification_message"
    /\ nreq' = [nreq EXCEPT ![n].pc = "done"]
    /\ UNCHANGED <<notifications, conns, lastMark, layer, unchanged_by_deliver>>

\* async_to_sync(channel_layer.group_send)(...) with the broker down: the
\* connection error leaves send_notification_to_user, the receiver and the
\* save() that sent post_save; the Notification row was committed before.
GroupSendRaises(n) ==
    /\ layer = "unavailable"
    /\ nreq[n].pc \in {"notification_message", "unread_count_update"}
    /\ nreq' = [nreq EXCEPT ![n].pc = "raised"]
    /\ UNCHANGED <<notifications, conns, lastMark, layer, unchanged_by_deliver>>

\* the broker of a configured layer goes down / comes back
BrokerFails ==
    /\ layer = "available"
    /\ layer' = "unavailable"
    /\ UNCHANGED <<vars_notif, unchanged_by_deliver>>

BrokerRecovers ==
    /\ layer = "unavailable"
    /\ layer' = "available"
    /\ UNCHANGED <<vars_notif, unchanged_by_deliver>>

NextDeliver ==
    \/ \E n \in NotificationIds, f \in Users, g \in Users : create_follow_notification(n, f, g)
    \/ \E n \in NotificationIds : SkipPush(n)
    \/ \E n \in NotificationIds : GroupSendRaises(n)
    \/ \E n \in NotificationIds : layer = "available" /\ SendNotificationMessage(n)
    \/ \E n \in NotificationIds : CountUnread(n)
    \/ \E n \in NotificationIds : layer = "available" /\ SendUnreadCount(n)
    \/ \E k \in Conns, u \in Users : layer = "available" /\ connect(k, u)
    \/ \E k \in Conns : disconnect(k)
    \/ \E k \in Conns : Dispatch(k)
    \/ BrokerFails
    \/ BrokerRecovers

SpecDeliver == InitDeliver /\ [][NextDeliver]_vars

\* C11: once a notification has been created its row is stored, and its
\* creation has raised no error into the operation that triggered it,
\* whatever the channel layer: unconfigured, or configured with the broker
\* down.
C11_PersistedAndNoErrorRaised ==
    \A n \in NotificationIds :
        nreq[n].pc # "idle" => notifications[n].exists /\ nreq[n].pc # "raised"

----------------------------------------------------------------------------
(* Notifications: the consumer's inbound frames and the recipient-scoped    *)
(* views                                                                    *)

\* A text frame is a sequence of JSON tokens; json.loads accepts a scalar, a
\* one-element array, or an object of string keys and scalar values.
StringTokens == {"action", "notification_id", "mark_read", "mark_all_read", "ping"}
NumberTokens == {"1", "2", "7", "9"}
IsScalar(tok) == tok \in StringTokens \cup NumberTokens
IntOf(tok) == CASE tok = "1" -> 1 [] tok = "2" -> 2 [] tok = "7" -> 7 [] tok = "9" -> 9

EmptyDict == [key \in {} |-> ""]
NoValue == "None"               \* dict.get of a missing key

\* the members of an object: key ":" value, separated by ","; a repeated
\* key keeps its last value
RECURSIVE ParseMembers(_)
ParseMembers(ts) ==
    IF Len(ts) >= 3 /\ ts[1] \in StringTokens /\ ts[2] = ":" /\ IsScalar(ts[3])
    THEN IF Len(ts) = 3
         THEN [ok |-> TRUE, dict |-> (ts[1] :> ts[3])]
         ELSE IF ts[4] = "," /\ ParseMembers(SubSeq(ts, 5, Len(ts))).ok
              THEN [ok |-> TRUE,
                    dict |-> ParseMembers(SubSeq(ts, 5, Len(ts))).dict @@ (ts[1] :> ts[3])]
              ELSE [ok |-> FALSE, dict |-> EmptyDict]
    ELSE [ok |-> FALSE, dict |-> EmptyDict]

\* json.loads(text_data): the type of the value, or JSONDecodeError
json_loads(text) ==
    IF Len(text) = 1 /\ IsScalar(text[1])
    THEN [raised |-> FALSE, type |-> IF text[1] \in NumberTokens THEN "int" ELSE "str",
          dict |-> EmptyDict]
    ELSE IF Len(text) = 3 /\ text[1] = "[" /\ IsScalar(text[2]) /\ text[3] = "]"
    THEN [raised |-> FALSE, type |-> "list", dict |-> EmptyDict]
    ELSE IF Len(text) = 2 /\ text[1] = "{" /\ text[2] = "}"
    THEN [raised |-> FALSE, type |-> "dict", dict |-> EmptyDict]
    ELSE IF Len(text) > 2 /\ text[1] = "{" /\ text[Len(text)] = "}"
            /\ ParseMembers(SubSeq(text, 2, Len(text) - 1)).ok
    THEN [raised |-> FALSE, type |-> "dict",
          dict |-> ParseMembers(SubSeq(text, 2, Len(text) - 1)).dict]
    ELSE [raised |-> TRUE, type |-> "none", dict |-> EmptyDict]

\* text_data_json.get(key)
dict_get(d, key) == IF key \in DOMAIN d THEN d[key] ELSE NoValue

MarkReadFrame(id) == <<"{", "action", ":", "mark_read", ",", "notification_id", ":", id, "}">>

\* the frames a client sends
Texts ==
    { <<"invalid", "json">>,
      <<"[", "1", "]">>,
      <<"7">>,
      <<"{", "}">>,
      <<"{", "action", ":", "ping", "}">>,
      <<"{", "action", ":", "mark_read", "}">>,
      <<"{", "action", ":", "mark_all_read", "}">>,
      MarkReadFrame("1"), MarkReadFrame("2"), MarkReadFrame("9") }

\* Notification.objects.get(id=notification_id, recipient=u).mark_as_read()
\* for the notification_id of a frame: None and an id no row has raise
\* DoesNotExist, a value that is no number raises ValueError
LookupOutcome(u, id) ==
    IF id \in NumberTokens
    THEN IF IntOf(id) \in NotificationIds THEN MarkOutcome(u, IntOf(id)) ELSE "not_found"
    ELSE IF id = NoValue THEN "not_found"
    ELSE "ValueError"

\* what NotificationConsumer.receive does with a frame: JSONDecodeError is
\* caught and DoesNotExist is turned into False; every other exception
\* leaves receive
ReceiveOutcome(u, text) ==
    LET parsed == json_loads(text)
        action == dict_get(parsed.dict, "action")
    IN  IF parsed.raised THEN "ignored"
        ELSE IF parsed.type # "dict" THEN "AttributeError"
        ELSE IF action = "mark_read"
             THEN LookupOutcome(u, dict_get(parsed.dict, "notification_id"))
        ELSE IF action = "mark_all_read" THEN "success"
        ELSE "ignored"

\* the table after receive has handled the frame
AfterReceive(u, text) ==
    LET parsed == json_loads(text)
        action == dict_get(parsed.dict, "action")
        id == dict_get(parsed.dict, "notification_id")
    IN  IF parsed.raised \/ parsed.type # "dict" THEN notifications
        ELSE IF action = "mark_read"
             THEN IF id \in NumberTokens /\ IntOf(id) \in NotificationIds
                  THEN AfterMark(u, IntOf(id))
                  ELSE notifications
        ELSE IF action = "mark_all_read" THEN UpdateIsRead(Unread(u), TRUE)
        ELSE notifications

unchanged_by_consumer ==
    <<vars_article, vars_comment, vars_like, vars_rate, vars_acache, vars_users,
      vars_account, vars_worker, vars_views, vars_window>>

\* NotificationConsumer.receive(text_data): an exception that leaves the
\* handler ends the consumer, and the socket is closed
receive(k, text) ==
    /\ conns[k].state = "open"
    /\ notifications' = AfterReceive(conns[k].user, text)
    /\ conns' = IF ReceiveOutcome(conns[k].user, text) \in {"AttributeError", "ValueError"}
                THEN [conns EXCEPT ![k] = Closed(k)]
                ELSE conns
    /\ lastFrame' = [tick |-> 1 - lastFrame.tick, conn |-> k, text |-> text,
                     outcome |-> ReceiveOutcome(conns[k].user, text)]
    /\ UNCHANGED <<nreq, lastMark, layer, lastDelete, unchanged_by_consumer>>

\* views.delete_notification: lastDelete is the response (success, or 404
\* 'Notification not found')
delete_notification(u, n) ==
    /\ notifications' = IF notifications[n].exists /\ notifications[n].recipient = u
                        THEN [notifications EXCEPT ![n] = NoRow]
                        ELSE notifications
    /\ lastDelete' = [tick |-> 1 - lastDelete.tick, user |-> u, id |-> n,
                      outcome |-> IF notifications[n].exists /\ notifications[n].recipient = u
                                  THEN "success" ELSE "not_found"]
    /\ UNCHANGED <<nreq, conns, lastMark, layer, lastFrame, unchanged_by_consumer>>

\* follow notifications already created and pushed: odd ids for A, even for B
InitConsumer ==
    /\ TwoArticles
    /\ EmptyComments
    /\ EmptyLikes
    /\ EmptyRate
    /\ EmptyExt
    /\ notifications = [n \in NotificationIds |->
           [exists |-> TRUE, recipient |-> IF n % 2 = 1 THEN "A" ELSE "B",
            sender |-> IF n % 2 = 1 THEN "B" ELSE "A",
            notification_type |-> "follow", is_read |-> FALSE, read_at |-> None]]
    /\ nreq = [n \in NotificationIds |-> [pc |-> "done", count |-> 1]]
    /\ conns = [k \in Conns |-> [state |-> "new"]]
    /\ lastMark = [tick |-> 0, id |-> None, outcome |-> "none"]

ScopeUsers == Users \cup {AnonymousUser}

NextConsumer ==
    \/ \E k \in Conns, u \in ScopeUsers : connect(k, u)
    \/ \E k \in Conns : disconnect(k)
    \/ \E k \in Conns, text \in Texts : receive(k, text)
    \/ \E u \in Users, n \in NotificationIds : mark_notification_read(u, n)
    \/ \E u \in Users, n \in NotificationIds : delete_notification(u, n)

SpecConsumer == InitConsumer /\ [][NextConsumer]_vars

----------------------------------------------------------------------------
(* Claims about the consumer and the recipient-scoped views                 *)

\* the frames the consumer cannot act on: no JSON, JSON that is no object,
\* an unknown or missing action, a mark_read without an id or with an id no
\* Notification has
CannotActOn(text) ==
    LET parsed == json_loads(text)
        action == dict_get(parsed.dict, "action")
        id == dict_get(parsed.dict, "notification_id")
    IN  \/ parsed.raised
        \/ parsed.type # "dict"
        \/ action \notin {"mark_read", "mark_all_read"}
        \/ /\ action = "mark_read"
           /\ \/ id = NoValue
              \/ id \in NumberTokens /\ IntOf(id) \notin StoredNotifications

\* C12: a frame the consumer cannot act on is ignored: the connection stays
\* open (so later frames are still received), nothing is sent to the client
\* and no Notification changes.
C12_UnusableFrameIgnored ==
    [][lastFrame'.tick # lastFrame.tick /\ CannotActOn(lastFrame'.text) =>
          /\ conns'[lastFrame'.conn].state = "open"
          /\ conns'[lastFrame'.conn].frames = conns[lastFrame'.conn].frames
          /\ conns'[lastFrame'.conn].inbox = conns[lastFrame'.conn].inbox
          /\ notifications' = notifications]_vars

\* C13: a connection attempt of an anonymous caller ends closed, never
\* accepted and in no group; a connection attempt of an authenticated user
\* ends accepted and in exactly the group notifications_<user id>.
C13_AnonymousRejectedUserSubscribed ==
    [][\A k \in Conns :
          /\ conns[k].state = "new" /\ conns'[k].state # "new" =>
                IF conns'[k].user = AnonymousUser
                THEN conns'[k].state = "rejected" /\ GroupsOf(k)' = {}
                ELSE /\ conns'[k].state = "open"
                     /\ GroupsOf(k)' = {<<"notifications_", UserId(conns'[k].user)>>}
                     /\ UserId(conns'[k].user) # None
          /\ conns[k].state = "rejected" =>
                conns'[k].state \in {"rejected", "closed"} /\ GroupsOf(k)' = {}]_vars

\* an authenticated user's connection is open and subscribed
C13_Witness ==
    \E k \in Conns :
        /\ conns[k].state = "open"
        /\ conns[k].user = "B"
        /\ GroupsOf(k) = {<<"notifications_", 2>>}

\* C14: a mark-read or delete over HTTP, or a mark_read frame, that names a
\* stored Notification of another recipient answers not-found and leaves
\* that Notification as it was.
C14_OtherUsersNotificationNotFound ==
    [][\A u \in Users, id \in NumberTokens :
          IntOf(id) \in StoredNotifications /\ notifications[IntOf(id)].recipient # u =>
              /\ mark_notification_read(u, IntOf(id)) =>
                    /\ lastMark'.outcome = "not_found"
                    /\ notifications'[IntOf(id)] = notifications[IntOf(id)]
              /\ delete_notification(u, IntOf(id)) =>
                    /\ lastDelete'.outcome = "not_found"
                    /\ notifications'[IntOf(id)] = notifications[IntOf(id)]
              /\ \A k \in Conns :
                    conns[k].state = "open" /\ conns[k].user = u /\ receive(k, MarkReadFrame(id)) =>
                        /\ lastFrame'.outcome = "not_found"
                        /\ conns'[k].state = "open"
                        /\ notifications'[IntOf(id)] = notifications[IntOf(id)]]_vars

\* user A has tried all three on B's notification 2, which is still there
\* and unread
C14_Witness ==
    /\ notifications[2].exists /\ notifications[2].recipient = "B"
    /\ ~notifications[2].is_read /\ notifications[2].read_at = None
    /\ lastMark.id = 2 /\ lastMark.outcome = "not_found"
    /\ lastDelete.user = "A" /\ lastDelete.id = 2 /\ lastDelete.outcome = "not_found"
    /\ \E k \in Conns :
          /\ conns[k].state = "open" /\ conns[k].user = "A"
          /\ lastFrame.conn = k /\ lastFrame.text = MarkReadFrame("2")
          /\ lastFrame.outcome = "not_found"

----------------------------------------------------------------------------
(* Articles: the popular-articles cache                                     *)

\* Article.published: status 'published' and published_at <= now
PublishedNow ==
    {a \in StoredArticles : /\ articles[a].status = "published"
                            /\ articles[a].published_at # None
                            /\ articles[a].published_at <= now}

\* .popular(): order by -(views_count + likes_count); rows of equal
\* popularity in primary-key order
MostPopular(S) ==
    CHOOSE a \in S : \A b \in S :
        \/ articles[a].views_count > articles[b].views_count
        \/ articles[a].views_count = articles[b].views_count /\ a <= b

\* the dict cache_popular_articles builds for an article
ArticleData(a) ==
    [id |-> a, title |-> articles[a].title, slug |-> articles[a].slug,
     views_count |-> articles[a].views_count]

\* Article.published.popular()[:limit] of the articles S, as dicts
RECURSIVE PopularData(_, _)
PopularData(S, limit) ==
    IF S = {} \/ limit = 0 THEN <<>>
    ELSE <<ArticleData(MostPopular(S))>> \o PopularData(S \ {MostPopular(S)}, limit - 1)

\* ArticleCacheManager.get_cached_popular_articles(days, limit): cache.get,
\* and on None cache_popular_articles computes the list and cache.set's it
get_cached_popular_articles(days, limit) ==
    /\ ~pcache[get_popular_articles_cache_key(days, limit)].hit
    /\ pcache' = [pcache EXCEPT ![get_popular_articles_cache_key(days, limit)] =
                     [hit |-> TRUE, data |-> PopularData(PublishedNow, limit)]]
    /\ UNCHANGED <<vars_article, not_article_save>>

\* what that call returns
PopularRead(days, limit) ==
    IF pcache[get_popular_articles_cache_key(days, limit)].hit
    THEN pcache[get_popular_articles_cache_key(days, limit)].data
    ELSE PopularData(PublishedNow, limit)

\* the timeout of a key passes
ExpirePopular(key) ==
    /\ pcache[key].hit
    /\ pcache' = [pcache EXCEPT ![key] = Miss]
    /\ UNCHANGED <<vars_article, not_article_save>>

InitCache ==
    /\ TwoArticles
    /\ EmptyComments
    /\ EmptyLikes
    /\ EmptyNotifications
    /\ EmptyRate
    /\ EmptyExt

NextCache ==
    \/ \E q \in PopularRequests : get_cached_popular_articles(q[1], q[2])
    \/ \E key \in PopularKeys : ExpirePopular(key)
    \/ \E r \in CreateReqs, t \in Titles, s \in STATUS_CHOICES : StartCreate(r, t, s)
    \/ \E r \in CreateReqs : ProbeSlug(r)
    \/ \E r \in CreateReqs : InsertArticle(r)
    \/ \E a \in ArticleIds, s \in STATUS_CHOICES : SaveArticle(a, s)
    \/ \E a \in ArticleIds : increment_views(a)

SpecCache == InitCache /\ [][NextCache]_vars

\* a step in which Article.save stored an Article (a create, an update or a
\* view count)
ArticleSaved ==
    /\ now' # now
    /\ creq' = creq \/ articles' # articles

\* C15: after an Article has been saved, no popular-articles list cached
\* before the save is returned: whatever (days, limit) it is asked with, the
\* next read finds no cached list and recomputes it from the database.
C15_SaveInvalidatesPopularLists ==
    [][ArticleSaved =>
          \A q \in PopularRequests :
              /\ ~pcache'[get_popular_articles_cache_key(q[1], q[2])].hit
              /\ PopularRead(q[1], q[2])' = PopularData(PublishedNow, q[2])']_vars

----------------------------------------------------------------------------
(* Users: the cached public profile                                         *)
(* UserCache.get_public_profile is a cache.get, a database query and a      *)
(* cache.set; a Profile.save runs the post_save receiver clear_user_cache   *)
(* before it returns.                                                       *)

\* user.profile
ProfileOf(u) == CHOOSE i \in ProfileIds : profiles[i].exists /\ profiles[i].user = u
HasProfile(u) == \E i \in ProfileIds : profiles[i].exists /\ profiles[i].user = u

\* the dict get_public_profile builds, from the rows it has just read
PublicProjection(u, profile) ==
    IF profile.is_public
    THEN [username |-> u, display_name |-> u,
          avatar_url |-> "/static/images/default-avatar.png", bio |-> profile.bio,
          location |-> "", website |-> "", twitter |-> "", linkedin |-> "",
          github |-> "", date_joined |-> 1]
    ELSE [username |-> u, avatar_url |-> "/static/images/default-avatar.png",
          is_private |-> TRUE]

unchanged_by_profile ==
    <<vars_article, vars_comment, vars_like, vars_notif, vars_rate, vars_channel, vars_acache,
      vars_account, vars_worker, vars_views, vars_window>>

\* get_public_profile(user_id), cache.get(cache_key): a cached dict is returned
StartLookup(r, u) ==
    /\ preq[r].pc = "idle"
    /\ preq' = [preq EXCEPT ![r] =
                  IF pubcache[u].hit
                  THEN [pc |-> "done", user |-> u, result |-> pubcache[u].data]
                  ELSE [pc |-> "query", user |-> u]]
    /\ UNCHANGED <<customusers, profiles, pubcache, unchanged_by_profile>>

\* get_public_profile, CustomUser.objects.select_related('profile').get(id=...)
\* and the dict built from it
QueryProfile(r) ==
    /\ preq[r].pc = "query"
    /\ customusers[preq[r].user].exists /\ HasProfile(preq[r].user)
    /\ preq' = [preq EXCEPT ![r] =
                  [pc |-> "set", user |-> preq[r].user,
                   result |-> PublicProjection(preq[r].user,
                                               profiles[ProfileOf(preq[r].user)])]]
    /\ UNCHANGED <<customusers, profiles, pubcache, unchanged_by_profile>>

\* get_public_profile, cache.set(cache_key, profile_data, PROFILE_CACHE_TIMEOUT)
StoreLookup(r) ==
    /\ preq[r].pc = "set"
    /\ pubcache' = [pubcache EXCEPT ![preq[r].user] = [hit |-> TRUE, data |-> preq[r].result]]
    /\ preq' = [preq EXCEPT ![r].pc = "done"]
    /\ UNCHANGED <<customusers, profiles, unchanged_by_profile>>

\* ProfileUpdateView / ProfileViewSet.update: Profile.save with the form's
\* is_public and bio, then clear_user_cache deletes public_profile:<user id>
SaveProfile(u, is_public, bio) ==
    /\ HasProfile(u)
    /\ profiles' = [profiles EXCEPT ![ProfileOf(u)].is_public = is_public,
                                    ![ProfileOf(u)].bio = bio]
    /\ pubcache' = [pubcache EXCEPT ![u] = Miss]
    /\ UNCHANGED <<customusers, preq, unchanged_by_profile>>

\* PROFILE_CACHE_TIMEOUT has passed since the key was set
ExpireProfile(u) ==
    /\ pubcache[u].hit
    /\ pubcache' = [pubcache EXCEPT ![u] = Miss]
    /\ UNCHANGED <<customusers, profiles, preq, unchanged_by_profile>>

Bios == {"", "bio"}

InitProfile ==
    /\ TwoArticles
    /\ EmptyComments
    /\ EmptyLikes
    /\ EmptyNotifications
    /\ EmptyRate
    /\ EmptyExt

NextProfile ==
    \/ \E r \in Lookups, u \in Users : StartLookup(r, u)
    \/ \E r \in Lookups : QueryProfile(r)
    \/ \E r \in Lookups : StoreLookup(r)
    \/ \E u \in Users, p \in BOOLEAN, b \in Bios : SaveProfile(u, p, b)
    \/ \E u \in Users : ExpireProfile(u)

SpecProfile == InitProfile /\ [][NextProfile]_vars

\* what a get_public_profile call made now returns
LookupNow(u) ==
    IF pubcache[u].hit THEN pubcache[u].data
    ELSE PublicProjection(u, profiles[ProfileOf(u)])

\* C16: while a user's Profile has is_public = false, the public-profile
\* lookup for that user returns username, avatar_url and is_private = true
\* and nothing else, also right after is_public was switched off.
C16_PrivateProfileShowsNothingElse ==
    \A u \in Users :
        HasProfile(u) /\ ~profiles[ProfileOf(u)].is_public =>
            /\ DOMAIN LookupNow(u) = {"username", "avatar_url", "is_private"}
            /\ LookupNow(u).is_private

----------------------------------------------------------------------------
(* Users: registration and login                                            *)
(* The post_save receivers of CustomUser run inside every save of a user;   *)
(* `db` is the pair of tables they write: profiles and the job queue.       *)

FreeProfileIds(rows) == {i \in ProfileIds : ~rows[i].exists}

\* Profile.objects.get_or_create(user=u)
get_or_create_profile(rows, u) ==
    IF \E i \in ProfileIds : rows[i].exists /\ rows[i].user = u
    THEN rows
    ELSE [rows EXCEPT ![CHOOSE i \in FreeProfileIds(rows) :
                           \A j \in FreeProfileIds(rows) : i <= j] = NewProfile(u)]

\* the receiver without its `if created:` test
create_user_profile_OnEverySave(db, u, created) ==
    [profiles |-> get_or_create_profile(db.profiles, u),
     jobs |-> Append(db.jobs, Job("send_welcome_email", u))]

\* signals.create_user_profile(sender, instance, created)
create_user_profile(db, u, created) ==
    IF created
    THEN [profiles |-> get_or_create_profile(db.profiles, u),
          jobs |-> Append(db.jobs, Job("send_welcome_email", u))]
    ELSE db

Db == [profiles |-> profiles, jobs |-> jobs]

unchanged_by_account ==
    <<vars_article, vars_comment, vars_like, vars_notif, vars_rate, vars_channel, vars_acache,
      preq, wclock, vars_views, vars_window>>

\* save_user_profile -> Profile.save -> clear_user_cache
ClearUserCache(u) == pubcache' = [pubcache EXCEPT ![u] = Miss]

\* signup_view: form.save() stores the user (post_save, created), login()
\* stamps last_login (a save, not created), update_login_stats counts the
\* login (a save, not created)
signup_view(u) ==
    /\ ~customusers[u].exists
    /\ customusers' = [customusers EXCEPT ![u] = [NewUser EXCEPT !.login_count = 1]]
    /\ LET created == create_user_profile(Db, u, TRUE)
           logged_in == create_user_profile(created, u, FALSE)
           counted == create_user_profile(logged_in, u, FALSE)
       IN  profiles' = counted.profiles /\ jobs' = counted.jobs
    /\ ClearUserCache(u)
    /\ UNCHANGED <<lgreq, unchanged_by_account>>

\* UserViewSet.register: serializer.save() -> create_user -> user.save()
UserViewSet_register(u) ==
    /\ ~customusers[u].exists
    /\ customusers' = [customusers EXCEPT ![u] = NewUser]
    /\ LET created == create_user_profile(Db, u, TRUE)
       IN  profiles' = created.profiles /\ jobs' = created.jobs
    /\ ClearUserCache(u)
    /\ UNCHANGED <<lgreq, unchanged_by_account>>

\* the three login paths
LoginPaths == {"login_view", "UserViewSet.login", "LoginAPIView.post"}

\* the paths whose view calls user.update_login_stats(...)
CallsUpdateLoginStats(path) == path \in {"login_view", "UserViewSet.login"}

\* authenticate(...) / form.get_user(): the credentials are right and the
\* view holds the user instance as loaded now
Authenticate(r, u, path) ==
    /\ lgreq[r].pc = "idle"
    /\ customusers[u].exists
    /\ customusers[u].login_count < MaxLogins
    /\ lgreq' = [lgreq EXCEPT ![r] = [pc |-> "authenticated", user |-> u, path |-> path,
                                      login_count |-> customusers[u].login_count]]
    /\ UNCHANGED <<customusers, profiles, pubcache, jobs, unchanged_by_account>>

\* the rest of the view: CustomUser.update_login_stats does
\* self.login_count += 1 on the instance and saves that column
CompleteLogin(r) ==
    /\ lgreq[r].pc = "authenticated"
    /\ IF CallsUpdateLoginStats(lgreq[r].path)
       THEN /\ customusers' = [customusers EXCEPT
                                 ![lgreq[r].user].login_count = lgreq[r].login_count + 1]
            /\ profiles' = create_user_profile(Db, lgreq[r].user, FALSE).profiles
            /\ jobs' = create_user_profile(Db, lgreq[r].user, FALSE).jobs
            /\ ClearUserCache(lgreq[r].user)
       ELSE UNCHANGED <<customusers, profiles, jobs, pubcache>>
    /\ lgreq' = [lgreq EXCEPT ![r].pc = "done"]
    /\ UNCHANGED unchanged_by_account

\* a fresh database
InitAccount ==
    /\ TwoArticles
    /\ EmptyComments
    /\ EmptyLikes
    /\ EmptyNotifications
    /\ EmptyRate
    /\ EmptyChannel
    /\ EmptyArticleCache
    /\ customusers = [u \in Users |-> NoRow]
    /\ profiles = [i \in ProfileIds |-> NoRow]
    /\ pubcache = [u \in Users |-> Miss]
    /\ preq = [r \in Lookups |-> [pc |-> "idle"]]
    /\ lgreq = [r \in LoginReqs |-> [pc |-> "idle"]]
    /\ jobs = <<>>
    /\ wclock = 0
    /\ vreq = [r \in ViewReqs |-> [pc |-> "idle"]]
    /\ window = [k \in MiddlewareKeys |-> NoTraffic]

NextAccount ==
    \/ \E u \in Users : signup_view(u)
    \/ \E u \in Users : UserViewSet_register(u)
    \/ \E r \in LoginReqs, u \in Users, path \in LoginPaths : Authenticate(r, u, path)
    \/ \E r \in LoginReqs : CompleteLogin(r)

SpecAccount == InitAccount /\ [][NextAccount]_vars

ProfilesFor(u) == {i \in ProfileIds : profiles[i].exists /\ profiles[i].user = u}
WelcomeJobsFor(u) ==
    {j \in DOMAIN jobs : jobs[j].task = "send_welcome_email" /\ jobs[j].arg = u}

\* C17: a registered user has one User row, exactly one Profile row and
\* exactly one welcome-email job, and a user who never registered has none.
C17_OneUserOneProfileOneWelcomeJob ==
    \A u \in Users :
        IF customusers[u].exists
        THEN Cardinality(ProfilesFor(u)) = 1 /\ Cardinality(WelcomeJobsFor(u)) = 1
        ELSE ProfilesFor(u) = {} /\ WelcomeJobsFor(u) = {}

\* both users have registered and have logged in since, each with one job
C17_Witness ==
    /\ \A u \in Users : customusers[u].exists /\ customusers[u].login_count >= 2
    /\ Len(jobs) = 2
    /\ jobs[1].arg # jobs[2].arg

\* C18: registration leaves login_count 0, and every completed login adds
\* exactly 1 to the user's login_count.
C18_LoginCountsEveryLogin ==
    [][\A u \in Users :
          /\ ~customusers[u].exists /\ customusers'[u].exists =>
                customusers'[u].login_count = 0
          /\ \A r \in LoginReqs :
                /\ lgreq[r].pc = "authenticated" /\ lgreq'[r].pc = "done"
                /\ lgreq[r].user = u
                => customusers'[u].login_count = customusers[u].login_count + 1]_vars

----------------------------------------------------------------------------
(* Background jobs: the Celery worker and self.retry                        *)

\* @shared_task(bind=True, max_retries=3) ... self.retry(countdown=60, exc=exc)
max_retries == 3
countdown == 60

Tasks == {"send_welcome_email", "process_article_images", "send_comment_notification"}

\* self.retry without the max_retries test
retry_Unlimited(job) ==
    [job EXCEPT !.state = "scheduled", !.retries = @ + 1, !.eta = wclock + countdown]

\* Task.retry: past max_retries the exception is raised and the job has
\* failed; otherwise the job is sent again with retries + 1 and an eta of
\* now + countdown
retry(job) ==
    IF job.retries + 1 > max_retries
    THEN [job EXCEPT !.state = "failed"]
    ELSE [job EXCEPT !.state = "scheduled", !.retries = @ + 1, !.eta = wclock + countdown]

\* the worker only takes a job that is waiting and whose eta has come
Due(j) == jobs[j].state \in {"queued", "scheduled"} /\ wclock >= jobs[j].eta

unchanged_by_worker ==
    <<vars_article, vars_comment, vars_like, vars_notif, vars_rate, vars_channel, vars_acache,
      vars_users, vars_account, vars_views, vars_window>>

\* the task body returns (the mail is sent, the image is processed, or
\* send_welcome_email only logs User.DoesNotExist)
RunSucceeds(j) ==
    /\ Due(j)
    /\ jobs' = [jobs EXCEPT ![j].state = "succeeded"]
    /\ UNCHANGED <<wclock, unchanged_by_worker>>

\* the task body raises: except Exception -> raise self.retry(countdown=60)
RunFails(j) ==
    /\ Due(j)
    /\ jobs' = [jobs EXCEPT ![j] = retry(jobs[j])]
    /\ UNCHANGED <<wclock, unchanged_by_worker>>

TickWorker ==
    /\ wclock < MaxClock
    /\ wclock' = wclock + TickSeconds
    /\ UNCHANGED <<jobs, unchanged_by_worker>>

\* one job of each kind is in the queue
InitTask ==
    /\ TwoArticles
    /\ EmptyComments
    /\ EmptyLikes
    /\ EmptyNotifications
    /\ EmptyRate
    /\ EmptyChannel
    /\ EmptyArticleCache
    /\ RegisteredUsers
    /\ lgreq = [r \in LoginReqs |-> [pc |-> "idle"]]
    /\ jobs = <<Job("send_welcome_email", "A"), Job("process_article_images", 1),
                Job("send_comment_notification", 1)>>
    /\ wclock = 0
    /\ vreq = [r \in ViewReqs |-> [pc |-> "idle"]]
    /\ window = [k \in MiddlewareKeys |-> NoTraffic]

NextTask ==
    \/ \E j \in DOMAIN jobs : RunSucceeds(j)
    \/ \E j \in DOMAIN jobs : RunFails(j)
    \/ TickWorker

SpecTask == InitTask /\ [][NextTask]_vars

Executed(j) == jobs'[j] # jobs[j]

----------------------------------------------------------------------------
(* Editing a comment.  In this specification the clock `now` counts minutes. *)

\* timedelta(minutes=15) in Comment.can_edit
EditWindowMinutes == 15

Contents == {"first", "second", "third"}

\* Comment.can_edit(user); CommentSerializer.get_can_edit reports it to the
\* client, and no view, form, serializer or permission class calls it
can_edit(c, u) ==
    IF u = comments[c].author
    THEN comments[c].created_at > now - EditWindowMinutes
    ELSE customusers[u].is_staff \/ customusers[u].is_superuser

\* CommentEditForm.save / CommentUpdateSerializer.update: mark_as_edited()
\* when the content differs, then save() (which runs clean())
UpdateContent(c, text) ==
    IF Comment_clean(comments[c].target, comments[c].parent) = "ok"
    THEN comments' = [comments EXCEPT ![c].content = text,
                                      ![c].is_edited = @ \/ text # comments[c].content]
    ELSE UNCHANGED comments

unchanged_by_edit ==
    <<vars_article, lastComment, vars_like, vars_notif, vars_rate, vars_ext>>

\* the web view: get_queryset is Comment.objects.filter(author=request.user),
\* so anyone but the author gets 404; the author's form is saved
CommentUpdateView(u, c, text) ==
    /\ comments[c].exists
    /\ IF comments[c].author = u
       THEN UpdateContent(c, text)
       ELSE UNCHANGED comments
    /\ UNCHANGED unchanged_by_edit

\* PUT/PATCH on CommentViewSet: IsOwnerOrReadOnly.has_object_permission is
\* obj.author == request.user, so anyone but the author gets 403; the
\* author's serializer is saved
CommentViewSet_update(u, c, text) ==
    /\ comments[c].exists
    /\ IF comments[c].author = u
       THEN UpdateContent(c, text)
       ELSE UNCHANGED comments
    /\ UNCHANGED unchanged_by_edit

TickEdit ==
    /\ now < MaxEditMinutes
    /\ now' = now + TickMinutes
    /\ UNCHANGED <<articles, creq, vars_comment, vars_like, vars_notif, vars_rate, vars_ext>>

\* A (not staff) and B (staff) have just commented on the two articles
InitEdit ==
    /\ TwoArticles
    /\ comments = [c \in CommentIds |->
                     IF c = 1 THEN CommentRow("A", 1, None)
                     ELSE IF c = 2 THEN CommentRow("B", 1, None)
                     ELSE IF c = 3 THEN CommentRow("A", 2, None)
                     ELSE NoRow]
    /\ lastComment = [result |-> "none", depth |-> 0]
    /\ EmptyLikes
    /\ EmptyNotifications
    /\ EmptyRate
    /\ EmptyChannel
    /\ EmptyArticleCache
    /\ customusers = [u \in Users |-> [NewUser EXCEPT !.is_staff = (u = "B")]]
    /\ profiles = [i \in ProfileIds |->
                     IF i = 1 THEN NewProfile("A")
                     ELSE IF i = 2 THEN NewProfile("B")
                     ELSE NoRow]
    /\ pubcache = [u \in Users |-> Miss]
    /\ preq = [r \in Lookups |-> [pc |-> "idle"]]
    /\ IdleAccounts

NextEdit ==
    \/ \E u \in Users, c \in StoredComments, text \in Contents : CommentUpdateView(u, c, text)
    \/ \E u \in Users, c \in StoredComments, text \in Contents : CommentViewSet_update(u, c, text)
    \/ TickEdit

SpecEdit == InitEdit /\ [][NextEdit]_vars

\* what the claim lets a user do: staff at any time, the author within 15
\* minutes of the comment's creation
MayEdit(u, c) ==
    \/ customusers[u].is_staff \/ customusers[u].is_superuser
    \/ u = comments[c].author /\ now - comments[c].created_at < 15

\* C20: on both edit paths an edit by a user the rule allows (staff, or the
\* author within 15 minutes of creation) stores the new content, and any
\* other edit leaves the content unchanged.
C20_EditOnlyInsideWindowOrByStaff ==
    [][\A u \in Users, c \in CommentIds, text \in Contents :
          CommentUpdateView(u, c, text) \/ CommentViewSet_update(u, c, text) =>
              IF MayEdit(u, c)
              THEN comments'[c].content = text
              ELSE comments'[c].content = comments[c].content]_vars

----------------------------------------------------------------------------
(* Comment content validation on the creation paths.  Content is a          *)
(* sequence of characters.                                                  *)

\* the submitted contents: nice, FREE it, www.x, http://x, aaaaa, aaaa,
\* freed, hi
Submissions ==
    { <<"n", "i", "c", "e">>,
      <<"F", "R", "E", "E", " ", "i", "t">>,
      <<"w", "w", "w", ".", "x">>,
      <<"h", "t", "t", "p", ":", "/", "/", "x">>,
      <<"a", "a", "a", "a", "a">>,
      <<"a", "a", "a", "a">>,
      <<"f", "r", "e", "e", "d">>,
      <<"h", "i">> }

UpperCase == {"F", "R", "E"}

\* str.lower() on the characters that occur in Submissions
LowerCh(ch) == IF ch = "F" THEN "f" ELSE IF ch = "R" THEN "r" ELSE IF ch = "E" THEN "e" ELSE ch
str_lower(s) == [i \in 1..Len(s) |-> LowerCh(s[i])]

\* str.strip()
RECURSIVE str_strip(_)
str_strip(s) ==
    IF s = <<>> THEN <<>>
    ELSE IF Head(s) = " " THEN str_strip(Tail(s))
    ELSE IF s[Len(s)] = " " THEN str_strip(SubSeq(s, 1, Len(s) - 1))
    ELSE s

\* \w and \s for the characters that occur in Submissions
IsW(ch) == ch \notin {" ", ".", ":", "/"}
IsSpace(ch) == ch = " "

\* the literal `lit` occurs in s at position i
At(s, i, lit) == i >= 1 /\ i + Len(lit) - 1 <= Len(s) /\ SubSeq(s, i, i + Len(lit) - 1) = lit

\* re.search of prefix + [^\s]+
PrefixThenNonSpace(s, prefix) ==
    \E i \in 1..Len(s) :
        /\ At(s, i, prefix)
        /\ i + Len(prefix) <= Len(s)
        /\ ~IsSpace(s[i + Len(prefix)])

\* \b(buy|sale|discount|offer|free|win|prize)\b
SpamWords ==
    { <<"b", "u", "y">>, <<"s", "a", "l", "e">>,
      <<"d", "i", "s", "c", "o", "u", "n", "t">>, <<"o", "f", "f", "e", "r">>,
      <<"f", "r", "e", "e">>, <<"w", "i", "n">>, <<"p", "r", "i", "z", "e">> }

WholeWordAt(s, i, w) ==
    /\ At(s, i, w)
    /\ i = 1 \/ ~IsW(s[i - 1])
    /\ i + Len(w) - 1 = Len(s) \/ ~IsW(s[i + Len(w)])

\* (.)\1{4,}
RepeatedRun(s) ==
    \E i \in 1..Len(s) : i + 4 <= Len(s) /\ \A k \in 1..4 : s[i + k] = s[i]

\* CommentForm._is_spam(content)
is_spam(content) ==
    LET content_lower == str_lower(content)
    IN  \/ PrefixThenNonSpace(content_lower, <<"h", "t", "t", "p", ":", "/", "/">>)
        \/ PrefixThenNonSpace(content_lower, <<"h", "t", "t", "p", "s", ":", "/", "/">>)
        \/ PrefixThenNonSpace(content_lower, <<"w", "w", "w", ".">>)
        \/ \E w \in SpamWords : \E i \in 1..Len(content_lower) : WholeWordAt(content_lower, i, w)
        \/ RepeatedRun(content_lower)

CapitalCount(s) == Cardinality({i \in 1..Len(s) : s[i] \in UpperCase})

\* CommentForm.clean_content: the ValidationError it raises, or "ok"
clean_content(raw) ==
    LET content == str_strip(raw)
    IN  IF Len(content) < 3 THEN "Comment must be at least 3 characters long."
        ELSE IF is_spam(content) THEN "Comment appears to be spam."
        ELSE IF CapitalCount(content) * 10 > 8 * Len(content)
        THEN "Please don't use excessive capital letters."
        ELSE "ok"

\* CommentCreateSerializer.validate_content: the ValidationError, or "ok"
validate_content(raw) ==
    LET content == str_strip(raw)
    IN  IF Len(content) < 3 THEN "Comment must be at least 3 characters long."
        ELSE IF Len(content) > 1000 THEN "Comment cannot exceed 1000 characters."
        ELSE "ok"

\* Comment.save of a new instance carrying the validated content
SaveSubmittedComment(author, target, parent, content) ==
    IF Comment_clean(target, parent) # "ok"
    THEN /\ lastComment' = [result |-> Comment_clean(target, parent),
                            depth |-> get_thread_depth(parent)]
         /\ UNCHANGED <<comments, notifications>>
    ELSE LET c == CHOOSE x \in FreeCommentIds : \A y \in FreeCommentIds : x <= y
             row == [CommentRow(author, target, parent) EXCEPT !.content = content]
         IN  /\ comments' = [comments EXCEPT ![c] = row]
             /\ notifications' = StoreNotifications(create_comment_notification(row, TRUE))
             /\ lastComment' = [result |-> "created",
                                depth |-> get_thread_depth(parent)]

Rejected_content(message, parent) ==
    /\ lastComment' = [result |-> message, depth |-> get_thread_depth(parent)]
    /\ UNCHANGED <<comments, notifications>>

SubmissionSlots == Cardinality(StoredComments) < MaxSubmissions

unchanged_by_submit == <<vars_article, vars_like, vars_push, vars_rate, vars_ext>>

\* CommentCreateView.post: CommentForm.is_valid() then form.save()
SubmitCommentForm(author, target, content) ==
    /\ SubmissionSlots
    /\ articles[target].exists
    /\ IF clean_content(content) # "ok"
       THEN Rejected_content(clean_content(content), None)
       ELSE SaveSubmittedComment(author, target, None, str_strip(content))
    /\ UNCHANGED unchanged_by_submit

\* comment_reply_view: CommentReplyForm.is_valid() (clean_content, then
\* clean) then form.save()
SubmitReplyForm(author, parent, content) ==
    /\ SubmissionSlots
    /\ comments[parent].exists
    /\ comments[parent].is_active
    /\ IF clean_content(content) # "ok"
       THEN Rejected_content(clean_content(content), parent)
       ELSE IF ParentTooDeep(parent)
       THEN Rejected_content("Cannot reply to comments more than 3 levels deep", parent)
       ELSE SaveSubmittedComment(author, comments[parent].target, parent, str_strip(content))
    /\ UNCHANGED unchanged_by_submit

\* CommentViewSet.create: CommentCreateSerializer.is_valid()
\* (validate_content, then validate) then create
SubmitApiComment(author, target, parent, content) ==
    /\ SubmissionSlots
    /\ articles[target].exists
    /\ parent # None => comments[parent].exists
    /\ IF validate_content(content) # "ok"
       THEN Rejected_content(validate_content(content), parent)
       ELSE IF parent # None /\ comments[parent].target # target
       THEN Rejected_content("Parent comment must be on the same object", parent)
       ELSE IF parent # None /\ ParentTooDeep(parent)
       THEN Rejected_content("Cannot reply to comments more than 3 levels deep", parent)
       ELSE SaveSubmittedComment(author, target, parent, str_strip(content))
    /\ UNCHANGED unchanged_by_submit

NextSpam ==
    \/ \E u \in Users, content \in Submissions : SubmitCommentForm(u, 1, content)
    \/ \E u \in Users, p \in StoredComments, content \in Submissions :
          SubmitReplyForm(u, p, content)
    \/ \E u \in Users, p \in ParentChoices, content \in Submissions :
          SubmitApiComment(u, 1, p, content)

SpecSpam == InitComment /\ [][NextSpam]_vars

\* what the claim calls failing the spam check: a URL, a listed keyword or
\* five identical characters in a row
FailsSpamCheck(content) == is_spam(str_strip(content))

\* C21: on the web form, the reply form and the API, a submission whose
\* content fails the spam check is rejected and stores no Comment row.
C21_SpamNeverPersisted ==
    [][\A u \in Users, p \in CommentIds \cup {None}, content \in Submissions :
          /\ FailsSpamCheck(content)
          /\ \/ SubmitCommentForm(u, 1, content)
             \/ p # None /\ SubmitReplyForm(u, p, content)
             \/ SubmitApiComment(u, 1, p, content)
          => /\ comments' = comments
             /\ lastComment'.result # "created"]_vars

----------------------------------------------------------------------------
(* Article views and edits as the requests run them: each request loads    *)
(* its own Article instance and saves from it later.                        *)

unchanged_by_view ==
    <<now, creq, vars_comment, vars_like, vars_notif, vars_rate, vars_channel, vars_users,
      vars_account, vars_worker, vars_window>>

\* ArticleDetailView.get_object: super().get_object(queryset) reads the row
\* from Article.published
GetObject(r, a) ==
    /\ vreq[r].pc = "idle"
    /\ articles[a].exists
    /\ articles[a].status = "published"
    /\ vreq' = [vreq EXCEPT ![r] = [pc |-> "loaded", kind |-> "view", article |-> a,
                                    instance |-> articles[a]]]
    /\ UNCHANGED <<articles, pcache, unchanged_by_view>>

\* Article.increment_views on the loaded instance: self.views_count += 1,
\* then save(update_fields=['views_count']) writes that one column
IncrementViews(r) ==
    /\ vreq[r].pc = "loaded"
    /\ vreq[r].kind = "view"
    /\ articles' = [articles EXCEPT
                      ![vreq[r].article].views_count = vreq[r].instance.views_count + 1]
    /\ article_post_save
    /\ vreq' = [vreq EXCEPT ![r] = [pc |-> "done", kind |-> "view",
                                    article |-> vreq[r].article]]
    /\ UNCHANGED unchanged_by_view

\* ArticleUpdateView.get_object: the author's own row, read for the form
LoadForEdit(r, a) ==
    /\ vreq[r].pc = "idle"
    /\ articles[a].exists
    /\ vreq' = [vreq EXCEPT ![r] = [pc |-> "loaded", kind |-> "edit", article |-> a,
                                    instance |-> articles[a]]]
    /\ UNCHANGED <<articles, pcache, unchanged_by_view>>

\* ArticleUpdateView.form_valid: the form sets its fields on the loaded
\* instance and Article.save() writes every column of it
SaveEdit(r, status) ==
    /\ vreq[r].pc = "loaded"
    /\ vreq[r].kind = "edit"
    /\ articles' = [articles EXCEPT
                      ![vreq[r].article] =
                          [vreq[r].instance EXCEPT
                             !.status = status,
                             !.published_at =
                                 PublishedAtOnSave(status, vreq[r].instance.published_at, now)]]
    /\ article_post_save
    /\ vreq' = [vreq EXCEPT ![r] = [pc |-> "done", kind |-> "edit",
                                    article |-> vreq[r].article]]
    /\ UNCHANGED unchanged_by_view

InitViews == InitComment

NextViews ==
    \/ \E r \in ViewReqs, a \in ArticleIds : GetObject(r, a)
    \/ \E r \in ViewReqs : IncrementViews(r)
    \/ \E r \in ViewReqs, a \in ArticleIds : LoadForEdit(r, a)
    \/ \E r \in ViewReqs, s \in STATUS_CHOICES : SaveEdit(r, s)

SpecViews == InitViews /\ [][NextViews]_vars

ViewsOf(a, pc) ==
    {r \in ViewReqs : vreq[r].pc = pc /\ vreq[r].kind = "view" /\ vreq[r].article = a}
EditsOf(a) ==
    {r \in ViewReqs : vreq[r].pc # "idle" /\ vreq[r].kind = "edit" /\ vreq[r].article = a}

\* C22: once the IncrementViews operations on an article have all completed
\* (and nothing else wrote the article), its views_count is larger than at
\* the start, 0, by exactly the number of completed operations.
C22_ViewsCountedExactly ==
    \A a \in StoredArticles :
        ViewsOf(a, "loaded") = {} /\ EditsOf(a) = {} =>
            articles[a].views_count = Cardinality(ViewsOf(a, "done"))

\* C30: no step lowers an article's views_count.
C30_ViewsCountNeverDecreases ==
    [][\A a \in ArticleIds :
          articles[a].exists => articles'[a].views_count >= articles[a].views_count]_vars

----------------------------------------------------------------------------
(* Deleting comments, and the queries that list them                       *)

\* the placeholder Comment.soft_delete writes
Placeholder == "[Comment deleted]"

\* Comment.soft_delete: save(update_fields=['is_active', 'content'])
soft_delete(c) ==
    comments' = [comments EXCEPT ![c].is_active = FALSE, ![c].content = Placeholder]

\* the comments reached from c by following replies (parent links backwards)
RECURSIVE Descendants(_)
Descendants(c) ==
    LET direct == {r \in CommentIds : comments[r].exists /\ comments[r].parent = c}
    IN  direct \cup UNION {Descendants(r) : r \in direct}

\* Model.delete(): the collector removes the row and, through
\* on_delete=CASCADE, its replies and the likes of all of them
Model_delete(c) ==
    LET gone == {c} \cup Descendants(c)
    IN  /\ comments' = [x \in CommentIds |-> IF x \in gone THEN NoRow ELSE comments[x]]
        /\ likes' = {l \in likes : l[1] \notin gone}

\* CommentManager.for_object(obj)
for_object(target) ==
    {c \in CommentIds : comments[c].exists /\ comments[c].target = target
                        /\ comments[c].is_active}

\* CommentManager.active()
active == {c \in CommentIds : comments[c].exists /\ comments[c].is_active}

unchanged_by_delete ==
    <<vars_article, lastComment, lreq, vars_notif, vars_rate, vars_ext>>

\* CommentDeleteView.get_queryset: staff see every comment, others their own
DeletableBy(u) ==
    {c \in CommentIds : comments[c].exists
                        /\ (customusers[u].is_staff \/ comments[c].author = u)}

\* POST to CommentDeleteView.  The view overrides delete(); which method a
\* POST reaches is the framework's choice: DeletionMixin.post calls
\* self.delete(), which soft-deletes, while BaseDeleteView.post (Django 4.0
\* and later) calls form_valid, which runs self.object.delete().
CommentDeleteView_post(u, c) ==
    /\ comments[c].exists
    /\ IF c \in DeletableBy(u)
       THEN \/ soft_delete(c) /\ UNCHANGED likes
            \/ Model_delete(c)
       ELSE UNCHANGED <<comments, likes>>
    /\ UNCHANGED unchanged_by_delete

\* DELETE on CommentViewSet: IsOwnerOrReadOnly, then perform_destroy
perform_destroy(u, c) ==
    /\ comments[c].exists
    /\ IF comments[c].author = u
       THEN soft_delete(c)
       ELSE UNCHANGED comments
    /\ UNCHANGED <<likes, unchanged_by_delete>>

\* CommentTreeSerializer on one comment: its id and, from get_replies, its
\* active replies in creation order, each serialized the same way
RECURSIVE SortedIds(_)
SortedIds(S) ==
    IF S = {} THEN <<>>
    ELSE LET m == CHOOSE x \in S : \A y \in S : x <= y
         IN  <<m>> \o SortedIds(S \ {m})

RECURSIVE CommentTreeSerializer(_)
CommentTreeSerializer(c) ==
    LET replies == SortedIds({r \in CommentIds : comments[r].exists /\ comments[r].parent = c
                                                 /\ comments[r].is_active})
    IN  [id |-> c, replies |-> [i \in 1..Len(replies) |-> CommentTreeSerializer(replies[i])]]

\* CommentViewSet.tree: the active root comments of the target, serialized
tree(target) ==
    LET root_comments == SortedIds({c \in CommentIds : comments[c].exists
                                      /\ comments[c].target = target
                                      /\ comments[c].parent = None
                                      /\ comments[c].is_active})
    IN  [i \in 1..Len(root_comments) |-> CommentTreeSerializer(root_comments[i])]

\* the ids that occur in a serialized list of nodes
RECURSIVE IdsIn(_)
IdsIn(nodes) ==
    UNION {{nodes[i].id} \cup IdsIn(nodes[i].replies) : i \in 1..Len(nodes)}

\* a thread on article 1 (1 <- 2 <- 3), a second root there and a root on
\* article 2; A is not staff, B is
InitDelete ==
    /\ TwoArticles
    /\ comments = [c \in CommentIds |->
                     IF c = 1 THEN CommentRow("A", 1, None)
                     ELSE IF c = 2 THEN CommentRow("B", 1, 1)
                     ELSE IF c = 3 THEN CommentRow("A", 1, 2)
                     ELSE IF c = 4 THEN CommentRow("B", 1, None)
                     ELSE IF c = 5 THEN CommentRow("A", 2, None)
                     ELSE NoRow]
    /\ lastComment = [result |-> "none", depth |-> 0]
    /\ EmptyLikes
    /\ EmptyNotifications
    /\ EmptyRate
    /\ EmptyChannel
    /\ EmptyArticleCache
    /\ customusers = [u \in Users |-> [NewUser EXCEPT !.is_staff = (u = "B")]]
    /\ profiles = [i \in ProfileIds |->
                     IF i = 1 THEN NewProfile("A")
                     ELSE IF i = 2 THEN NewProfile("B")
                     ELSE NoRow]
    /\ pubcache = [u \in Users |-> Miss]
    /\ preq = [r \in Lookups |-> [pc |-> "idle"]]
    /\ IdleAccounts

NextDelete ==
    \/ \E u \in Users, c \in CommentIds : CommentDeleteView_post(u, c)
    \/ \E u \in Users, c \in CommentIds : perform_destroy(u, c)

SpecDelete == InitDelete /\ [][NextDelete]_vars

\* C23: when a comment's owner deletes it, on the web or through the API,
\* the row stays with is_active false and the placeholder as content, no
\* other comment row changes, and the comment is in neither for_object nor
\* the active comments; a comment that is not active never shows up there
\* again.
C23_OwnerDeleteIsSoft ==
    [][/\ \A c \in StoredComments :
            \/ CommentDeleteView_post(comments[c].author, c)
            \/ perform_destroy(comments[c].author, c)
            => /\ comments'[c].exists
               /\ comments'[c] = [comments[c] EXCEPT !.is_active = FALSE,
                                                     !.content = "[Comment deleted]"]
               /\ \A o \in CommentIds \ {c} : comments'[o] = comments[o]
               /\ c \notin active'
               /\ c \notin for_object(comments[c].target)'
       /\ \A c \in CommentIds :
            comments[c].exists /\ ~comments[c].is_active => c \notin active']_vars

SoftDeleted(c) == comments[c].exists /\ ~comments[c].is_active

RECURSIVE Ancestors(_)
Ancestors(c) ==
    IF comments[c].parent = None THEN {}
    ELSE {comments[c].parent} \cup Ancestors(comments[c].parent)

\* C29: an active reply that has a soft-deleted comment above it is still
\* among the comments Tree(target) returns.
C29_RepliesOfDeletedStayInTree ==
    \A c \in CommentIds :
        /\ comments[c].exists /\ comments[c].is_active
        /\ \E p \in Ancestors(c) : SoftDeleted(p)
        => c \in IdsIn(tree(comments[c].target))

----------------------------------------------------------------------------
(* Subscriptions: connections that come and go while notifications are sent *)

NextSubscribe ==
    \/ \E n \in NotificationIds, f \in Users, g \in Users : create_follow_notification(n, f, g)
    \/ \E n \in NotificationIds : SendNotificationMessage(n)
    \/ \E n \in NotificationIds : CountUnread(n)
    \/ \E n \in NotificationIds : SendUnreadCount(n)
    \/ \E k \in Conns, u \in ScopeUsers : connect(k, u)
    \/ \E k \in Conns : disconnect(k)
    \/ \E k \in Conns : Dispatch(k)

SpecSubscribe == InitNotif /\ [][NextSubscribe]_vars

----------------------------------------------------------------------------
(* Mark-read operations on stored notifications                            *)

NextMarkRead ==
    \/ \E k \in Conns, u \in Users : connect(k, u)
    \/ \E u \in Users, n \in NotificationIds : mark_notification_read(u, n)
    \/ \E k \in Conns, n \in NotificationIds : receive_mark_read(k, n)
    \/ \E u \in Users : mark_all_notifications_read(u)
    \/ \E k \in Conns : receive_mark_all_read(k)

SpecMarkRead == InitConsumer /\ [][NextMarkRead]_vars

\* C25: every stored Notification that is read has a read_at.
C25_ReadImpliesReadAt ==
    \A n \in NotificationIds :
        notifications[n].exists /\ notifications[n].is_read =>
            notifications[n].read_at # None

----------------------------------------------------------------------------
(* The popular-articles cache as concurrent readers use it: cache.get, the  *)
(* database query and cache.set are separate steps of a request.            *)

DefaultKey == get_popular_articles_cache_key(DefaultDays, DefaultLimit)

unchanged_by_popular ==
    <<vars_article, vars_comment, vars_like, vars_notif, vars_rate, vars_channel, vars_users,
      vars_account, vars_worker, vars_window>>

\* get_cached_popular_articles: cache.get(cache_key) returns None
PopularMiss(r) ==
    /\ vreq[r].pc = "idle"
    /\ ~pcache[DefaultKey].hit
    /\ vreq' = [vreq EXCEPT ![r] = [pc |-> "missed", kind |-> "popular"]]
    /\ UNCHANGED <<pcache, unchanged_by_popular>>

\* cache_popular_articles: the query and the loop that builds articles_data
PopularQuery(r) ==
    /\ vreq[r].pc = "missed"
    /\ vreq' = [vreq EXCEPT ![r] = [pc |-> "queried", kind |-> "popular",
                                    data |-> PopularData(PublishedNow, DefaultLimit)]]
    /\ UNCHANGED <<pcache, unchanged_by_popular>>

\* cache_popular_articles: cache.set(cache_key, articles_data, timeout)
PopularStore(r) ==
    /\ vreq[r].pc = "queried"
    /\ pcache' = [pcache EXCEPT ![DefaultKey] = [hit |-> TRUE, data |-> vreq[r].data]]
    /\ vreq' = [vreq EXCEPT ![r] = [pc |-> "done", kind |-> "popular"]]
    /\ UNCHANGED unchanged_by_popular

NextStale ==
    \/ \E r \in ViewReqs : PopularMiss(r)
    \/ \E r \in ViewReqs : PopularQuery(r)
    \/ \E r \in ViewReqs : PopularStore(r)
    \/ \E a \in ArticleIds, s \in STATUS_CHOICES : SaveArticle(a, s)
    \/ \E a \in ArticleIds : increment_views(a)
    \/ ExpirePopular(DefaultKey)

SpecStale == InitCache /\ [][NextStale]_vars

\* C26: whenever the default popular list is cached, with every Article save
\* committed and its invalidation run, the cached list is the list the
\* database gives now, so a cached read returns no pre-save data.
C26_CachedPopularListIsCurrent ==
    pcache[DefaultKey].hit =>
        pcache[DefaultKey].data = PopularData(PublishedNow, DefaultLimit)

----------------------------------------------------------------------------
(* The window of RateLimitMiddleware over time                             *)
(* cache.set(cache_key, requests + 1, 60) restarts the 60 second timeout   *)
(* of the key at every admitted request; the entry lapses 60 seconds after *)
(* the last cache.set.  One client sends at most one request per tick of   *)
(* the clock and waits for the response.                                   *)

WindowSeconds == 60

unchanged_by_window ==
    <<vars_article, vars_comment, vars_like, vars_notif, rreq, vars_channel,
      vars_users, vars_account, jobs, vars_views, vars_acache>>

\* RateLimitMiddleware.process_request, whole, for one request of the client
RateLimitMiddleware(key, path) ==
    /\ wclock \notin window[key].sent
    /\ LET requests == CacheGet(key)
           seen == window[key].sent \cup {wclock}
       IN  IF DEBUG \/ SkipsRateLimit(path)
           THEN /\ window' = [window EXCEPT ![key].sent = seen,
                                            ![key].response = "not limited"]
                /\ UNCHANGED <<cache, admitted>>
           ELSE IF requests >= MiddlewareLimit
           THEN /\ window' = [window EXCEPT ![key].sent = seen,
                                            ![key].response = "rejected"]
                /\ UNCHANGED <<cache, admitted>>
           ELSE /\ cache' = [cache EXCEPT ![key] = requests + 1]
                /\ admitted' = [admitted EXCEPT ![key] = admitted[key] + 1]
                /\ window' = [window EXCEPT ![key].sent = seen,
                                            ![key].response = "admitted",
                                            ![key].expires = wclock + WindowSeconds]
    /\ UNCHANGED <<wclock, unchanged_by_window>>

\* the clock advances; an entry whose timeout has passed is gone
TickWindow ==
    /\ wclock < MaxWindowClock
    /\ wclock' = wclock + TickSeconds
    /\ LET Lapsed(k) == cache[k] # Absent /\ window[k].expires <= wclock'
       IN  /\ cache' = [k \in RateKeys |->
                          IF k \in MiddlewareKeys /\ Lapsed(k) THEN Absent ELSE cache[k]]
           /\ admitted' = [k \in RateKeys |->
                             IF k \in MiddlewareKeys /\ Lapsed(k) THEN 0 ELSE admitted[k]]
    /\ window' = [k \in MiddlewareKeys |->
                    [window[k] EXCEPT
                       !.sent = {t \in window[k].sent : t > wclock' - WindowSeconds},
                       !.response = "none"]]
    /\ UNCHANGED unchanged_by_window

\* no request has been made yet
InitWindow ==
    /\ TwoArticles
    /\ EmptyComments
    /\ EmptyLikes
    /\ EmptyNotifications
    /\ cache = [k \in RateKeys |-> Absent]
    /\ admitted = [k \in RateKeys |-> 0]
    /\ rreq = [r \in RateReqs |-> [pc |-> "idle"]]
    /\ EmptyExt

NextWindow ==
    \/ \E k \in MiddlewareKeys, p \in Paths : RateLimitMiddleware(k, p)
    \/ TickWindow

SpecWindow == InitWindow /\ [][NextWindow]_vars

\* the requests of the client in the 60 seconds before the present instant
Preceding(key) == window[key].sent \ {wclock}

\* C27: a client IP with fewer than 100 requests in the preceding 60 seconds
\* is never rejected by the middleware; in particular a client that sends at
\* most one request every 30 seconds is never answered with a rejection.
C27_SlowClientNeverRejected ==
    \A k \in MiddlewareKeys :
        Cardinality(Preceding(k)) < MiddlewareLimit => window[k].response # "rejected"

----------------------------------------------------------------------------
(* The e-mail notifications of a new comment                               *)
(* comments.signals.comment_post_save enqueues send_comment_notification   *)
(* for the author of the commented object and for the author of the parent *)
(* comment, then moderate_comment; the worker sends one mail per job.      *)

CommentJob(c, recipient, is_reply) ==
    Job("send_comment_notification",
        [comment_id |-> c, recipient_id |-> recipient, is_reply |-> is_reply])

\* comment_post_save(sender, instance, created): the jobs it enqueues, in order
comment_post_save(c, instance, created) ==
    IF ~created THEN <<>>
    ELSE (IF articles[instance.target].author # instance.author
          THEN <<CommentJob(c, articles[instance.target].author, FALSE)>>
          ELSE <<>>)
         \o (IF instance.parent # None /\ comments[instance.parent].author # instance.author
             THEN <<CommentJob(c, comments[instance.parent].author, TRUE)>>
             ELSE <<>>)
         \o <<Job("moderate_comment", [comment_id |-> c])>>

unchanged_by_comment_signal ==
    <<vars_article, vars_like, vars_push, vars_rate, vars_channel, vars_users,
      vars_account, wclock, vars_views, vars_window, vars_acache>>

\* Comment.objects.create(...) with the receivers of comments.signals connected
CreateCommentWithSignals(author, target, parent) ==
    /\ Cardinality(StoredComments) < MaxNotifiedComments
    /\ FreeCommentIds # {}
    /\ articles[target].exists
    /\ parent # None => comments[parent].exists
    /\ SaveNewComment(author, target, parent)
    /\ jobs' = IF Comment_clean(target, parent) = "ok"
               THEN LET c == CHOOSE x \in FreeCommentIds : \A y \in FreeCommentIds : x <= y
                    IN  jobs \o comment_post_save(c, CommentRow(author, target, parent), TRUE)
               ELSE jobs
    /\ UNCHANGED unchanged_by_comment_signal

NextCommentSignal ==
    \/ \E u \in Users, t \in Targets, p \in ParentChoices : CreateCommentWithSignals(u, t, p)
    \/ \E j \in DOMAIN jobs : RunSucceeds(j)

SpecCommentSignal == InitComment /\ [][NextCommentSignal]_vars

\* the mails sent to recipient u about comment c
MailsSent(c, u) ==
    {j \in DOMAIN jobs :
        /\ jobs[j].task = "send_comment_notification"
        /\ jobs[j].state = "succeeded"
        /\ jobs[j].arg.comment_id = c
        /\ jobs[j].arg.recipient_id = u}

\* C28: one comment creation notifies each recipient at most once, also when
\* the author of the parent comment is the author of the article.
C28_OneNotificationPerRecipient ==
    \A c \in StoredComments, u \in Users : Cardinality(MailsSent(c, u)) <= 1

====
